---- MODULE Spec2Model ----
(***************************************************************************)
(* The structural type-expression evaluator exercised by the type-level    *)
(* exercises of the repository (conditional types, infer, distribution,    *)
(* template-literal matching, recursive generic aliases).                  *)
(*                                                                         *)
(* A TypeValue is a record with a field k.  An Expression is a record with *)
(* a field e.  String literal values are sequences of one-character        *)
(* strings, so that template-literal matching really splits text.          *)
(***************************************************************************)
EXTENDS Integers, Sequences, FiniteSets, TLC

(* ------------------------------------------------------------------ *)
(* TypeValue constructors                                              *)
(* ------------------------------------------------------------------ *)
Never == [k |-> "never"]
Unknown == [k |-> "unknown"]

Prim(n) == [k |-> "prim", name |-> n]
StringT == Prim("string")
NumberT == Prim("number")
BooleanT == Prim("boolean")
NullT == Prim("null")
UndefinedT == Prim("undefined")

\* Literal(kind, value): value is a sequence of one-character strings
LitV(b, s) == [k |-> "lit", base |-> b, v |-> s]
Str(s) == LitV("string", s)
Num(c) == LitV("number", <<c>>)
TrueT == LitV("boolean", <<"true">>)
FalseT == LitV("boolean", <<"false">>)

TupleV(es) == [k |-> "tuple", elems |-> es]
ArrayV(t) == [k |-> "array", elem |-> t]
\* params is the tuple (or, for a rest parameter, the array) of parameter types
FnV(ps, r) == [k |-> "fn", params |-> ps, ret |-> r]
\* Record(fields): a sequence of fields, each with a name (text), a type
\* and the optional and readonly modifiers
Field(n, t, o, r) == [name |-> n, type |-> t, optional |-> o, readonly |-> r]
RecordV(fs) == [k |-> "record", fields |-> fs]
FieldNames(v) == {v.fields[i].name : i \in 1..Len(v.fields)}
FieldOf(v, n) == v.fields[CHOOSE i \in 1..Len(v.fields) : v.fields[i].name = n]
\* members is a set of TypeValue; RawUnion does not normalize
RawUnion(ms) == [k |-> "union", members |-> ms]
\* Intersection(members), not normalized
RawIntersection(ms) == [k |-> "inter", members |-> ms]

(* ------------------------------------------------------------------ *)
(* normalize: flatten nested unions, deduplicate, absorb Never         *)
(* ------------------------------------------------------------------ *)
RECURSIVE Normalize(_)
RECURSIVE NormalizeSeq(_)
RECURSIVE FlatMembers(_)

\* nested unions opened, Never kept as a member
FlatMembersKeepNever(S) ==
    {x \in S : x.k # "union"} \cup UNION {x.members : x \in {y \in S : y.k = "union"}}

\* the members of a set of already normalized values, nested unions opened
FlatMembers(S) ==
    IF S = {} THEN {}
    ELSE LET x == CHOOSE y \in S : TRUE
             rest == FlatMembers(S \ {x})
         IN IF x.k = "union" THEN x.members \cup rest
            ELSE IF x.k = "never" THEN rest
            ELSE {x} \cup rest

NormalizeSeq(s) ==
    IF s = <<>> THEN <<>>
    ELSE <<Normalize(Head(s))>> \o NormalizeSeq(Tail(s))

\* the members of a set of already normalized values, nested intersections
\* opened
FlatParts(S) ==
    {x \in S : x.k # "inter"} \cup UNION {x.members : x \in {y \in S : y.k = "inter"}}

\* two literal or primitive members no value belongs to both of
Conflict(a, b) ==
    /\ a # b
    /\ a.k \in {"lit", "prim"} /\ b.k \in {"lit", "prim"}
    /\ ~(a.k = "lit" /\ b.k = "prim" /\ a.base = b.name)
    /\ ~(b.k = "lit" /\ a.k = "prim" /\ b.base = a.name)

\* an intersection of normalized members, in normal form
MkIntersection(S) ==
    LET ms == FlatParts(S)
    IN IF Never \in ms \/ \E a \in ms, b \in ms : Conflict(a, b) THEN Never
       ELSE IF ms = {} THEN Unknown
       ELSE IF Cardinality(ms) = 1 THEN CHOOSE x \in ms : TRUE
       ELSE RawIntersection(ms)

\* a union of normalized members, in normal form
MkUnion(S) ==
    LET ms == FlatMembers(S)
    IN IF ms = {} THEN Never
       ELSE IF Cardinality(ms) = 1 THEN CHOOSE x \in ms : TRUE
       ELSE RawUnion(ms)

\* only the value itself is put in normal form, not the values inside it
NormalizeShallow(v) ==
    CASE v.k = "union" -> MkUnion(v.members)
      [] v.k = "inter" -> MkIntersection(v.members)
      [] OTHER -> v

Normalize(v) ==
    CASE v.k = "union" -> MkUnion({Normalize(m) : m \in v.members})
      [] v.k = "inter" -> MkIntersection({Normalize(m) : m \in v.members})
      [] v.k = "tuple" -> TupleV(NormalizeSeq(v.elems))
      [] v.k = "array" -> ArrayV(Normalize(v.elem))
      [] v.k = "fn" -> FnV(Normalize(v.params), Normalize(v.ret))
      [] v.k = "record" ->
            RecordV([i \in 1..Len(v.fields) |->
                        [v.fields[i] EXCEPT !.type = Normalize(v.fields[i].type)]])
      [] OTHER -> v

\* normal form: no nested union and no Never member (an empty union has
\* degenerated to Never)
RECURSIVE IsNormal(_)
IsNormal(v) ==
    CASE v.k = "union" ->
            /\ v.members # {}
            /\ \A m \in v.members : m.k # "union" /\ m.k # "never" /\ IsNormal(m)
      [] v.k = "inter" ->
            /\ v.members # {}
            /\ \A m \in v.members : m.k # "inter" /\ m.k # "never" /\ IsNormal(m)
            /\ \A a \in v.members, b \in v.members : ~Conflict(a, b)
      [] v.k = "tuple" -> \A i \in 1..Len(v.elems) : IsNormal(v.elems[i])
      [] v.k = "array" -> IsNormal(v.elem)
      [] v.k = "fn" -> IsNormal(v.params) /\ IsNormal(v.ret)
      [] v.k = "record" -> \A i \in 1..Len(v.fields) : IsNormal(v.fields[i].type)
      [] OTHER -> TRUE

(* ------------------------------------------------------------------ *)
(* structural compatibility of a subject with an evaluated pattern     *)
(* ------------------------------------------------------------------ *)
RECURSIVE Assignable(_, _)
Assignable(s, p) ==
    CASE p.k = "unknown" -> TRUE
      [] s.k = "never" -> TRUE
      [] s.k = "union" -> \A m \in s.members : Assignable(m, p)
      [] p.k = "union" -> \E m \in p.members : Assignable(s, m)
      [] s = p -> TRUE
      [] s.k = "lit" /\ p.k = "prim" -> s.base = p.name
      [] s.k = "tuple" /\ p.k = "tuple" ->
            /\ Len(s.elems) = Len(p.elems)
            /\ \A i \in 1..Len(s.elems) : Assignable(s.elems[i], p.elems[i])
      [] s.k = "tuple" /\ p.k = "array" ->
            \A i \in 1..Len(s.elems) : Assignable(s.elems[i], p.elem)
      [] s.k = "array" /\ p.k = "array" -> Assignable(s.elem, p.elem)
      \* width subtyping: fields the pattern does not name are ignored
      [] s.k = "record" /\ p.k = "record" ->
            \A i \in 1..Len(p.fields) :
                IF p.fields[i].name \in FieldNames(s)
                THEN Assignable(FieldOf(s, p.fields[i].name).type, p.fields[i].type)
                ELSE p.fields[i].optional
      [] s.k = "fn" /\ p.k = "fn" ->
            Assignable(s.params, p.params) /\ Assignable(s.ret, p.ret)
      [] OTHER -> FALSE

(* ------------------------------------------------------------------ *)
(* Expression constructors                                             *)
(* ------------------------------------------------------------------ *)
Ref(n) == [e |-> "ref", name |-> n]
\* a reference to a type parameter declared `n extends constraint`
ParamRef(n, constraint) == [e |-> "param", name |-> n, constraint |-> constraint]
LitE(v) == [e |-> "lit", val |-> v]
Infer(n) == [e |-> "infer", name |-> n]
\* a tuple item: an element, or a spread `...x`
Item(x) == [spread |-> FALSE, x |-> x]
Spread(x) == [spread |-> TRUE, x |-> x]
TupleExpr(items) == [e |-> "tuple", items |-> items]
ArrayExpr(x) == [e |-> "array", elem |-> x]
UnionExpr(ms) == [e |-> "union", members |-> ms]
\* (...args: rest) => ret
FnExpr(rest, ret) == [e |-> "fn", rest |-> rest, ret |-> ret]
Conditional(check, pattern, thenBranch, elseBranch) ==
    [e |-> "cond", check |-> check, pattern |-> pattern,
     thenBranch |-> thenBranch, elseBranch |-> elseBranch]
TemplateLiteral(parts) == [e |-> "template", parts |-> parts]
\* fields: a sequence of Field records whose type is an Expression
ObjectExpr(fields) == [e |-> "object", fields |-> fields]
IndexedAccess(target, key) == [e |-> "index", target |-> target, key |-> key]
Keyof(target) == [e |-> "keyof", target |-> target]
\* { [keyName in sourceKeys as keyRemap]: valueExpr }; a modifier is one of
\* "keep", "add", "remove"; keyRemap is NoRemap when there is no `as` clause
MappedType(keyName, sourceKeys, valueExpr, keyRemap, readonlyMod, optionalMod) ==
    [e |-> "mapped", keyName |-> keyName, sourceKeys |-> sourceKeys,
     valueExpr |-> valueExpr, keyRemap |-> keyRemap,
     readonlyMod |-> readonlyMod, optionalMod |-> optionalMod]
NoRemap == [e |-> "none"]
Apply(definitionName, args) == [e |-> "apply", name |-> definitionName, args |-> args]
Text(s) == LitE(Str(s))
\* marks a parameter that has no default
NoDefault == [e |-> "none"]

(* ------------------------------------------------------------------ *)
(* Results: a value or an EvaluationError, with the values every       *)
(* sub-evaluation returned on the way (steps)                          *)
(* ------------------------------------------------------------------ *)
Ok(v, S) == [tag |-> "ok", val |-> v, steps |-> S \cup {v}]
Err(type, info, S) == [tag |-> "err", err |-> type, info |-> info, steps |-> S]
\* the same error, handed on unchanged by an enclosing evaluation
Raise(r, S) == [tag |-> "err", err |-> r.err, info |-> r.info, steps |-> r.steps \cup S]

MatchSuccess(b, S) == [m |-> "yes", b |-> b, steps |-> S]
MatchFailure(S) == [m |-> "no", steps |-> S]
MatchError(r, S) == [m |-> "err", err |-> r.err, info |-> r.info, steps |-> r.steps \cup S]

EmptyEnv == [n \in {} |-> Never]

(* ------------------------------------------------------------------ *)
(* Text helpers (a string is a sequence of one-character strings)      *)
(* ------------------------------------------------------------------ *)
IsPrefix(t, s) == Len(t) <= Len(s) /\ SubSeq(s, 1, Len(t)) = t

\* number of characters before the first occurrence of t in s, or -1
FindText(s, t) ==
    LET C == {i \in 0..(Len(s) - Len(t)) : SubSeq(s, i + 1, i + Len(t)) = t}
    IN IF C = {} THEN -1 ELSE CHOOSE i \in C : \A j \in C : i <= j

Drop(s, n) == SubSeq(s, n + 1, Len(s))

UpperChar(c) ==
    CASE c = "a" -> "A" [] c = "b" -> "B" [] c = "c" -> "C" [] c = "h" -> "H"
      [] c = "i" -> "I" [] OTHER -> c

LowerChar(c) ==
    CASE c = "A" -> "a" [] c = "B" -> "b" [] c = "C" -> "c" [] c = "H" -> "h"
      [] c = "I" -> "i" [] OTHER -> c

Uppercase(s) == [i \in 1..Len(s) |-> UpperChar(s[i])]
Lowercase(s) == [i \in 1..Len(s) |-> LowerChar(s[i])]

IsText(p) == p.e = "lit" /\ p.val.k = "lit" /\ p.val.base = "string"

\* the names a pattern captures
RECURSIVE InferNames(_)
RECURSIVE InferNamesSeq(_)
InferNamesSeq(xs) ==
    IF xs = <<>> THEN {} ELSE InferNames(Head(xs)) \cup InferNamesSeq(Tail(xs))
InferNames(p) ==
    CASE p.e = "infer" -> {p.name}
      [] p.e = "tuple" -> InferNamesSeq([i \in 1..Len(p.items) |-> p.items[i].x])
      [] p.e = "array" -> InferNames(p.elem)
      [] p.e = "fn" -> InferNames(p.rest) \cup InferNames(p.ret)
      [] p.e = "union" -> InferNamesSeq(p.members)
      [] p.e = "template" -> InferNamesSeq(p.parts)
      [] p.e = "object" -> InferNamesSeq([i \in 1..Len(p.fields) |-> p.fields[i].type])
      [] OTHER -> {}

(* ------------------------------------------------------------------ *)
(* The definition table: the generic aliases of the exercises          *)
(* ------------------------------------------------------------------ *)
Def(paramNames, defaults, body) ==
    [params |-> paramNames, defaults |-> defaults, body |-> body]

\* type IsString<T> = T extends string ? true : false
IsString ==
    Def(<<"T">>, <<NoDefault>>,
        Conditional(Ref("T"), LitE(StringT), LitE(TrueT), LitE(FalseT)))

\* ToArray with its check wrapped in a tuple
ToArrayWrapped ==
    Def(<<"T">>, <<NoDefault>>,
        Conditional(TupleExpr(<<Item(Ref("T"))>>), TupleExpr(<<Item(LitE(Unknown))>>),
                    ArrayExpr(Ref("T")), LitE(Never)))

\* type ToArray<T> = T extends unknown ? T[] : never
ToArray ==
    Def(<<"T">>, <<NoDefault>>,
        Conditional(Ref("T"), LitE(Unknown), ArrayExpr(Ref("T")), LitE(Never)))

\* ToArrayNonDist with the tuple around its check left out
ToArrayNonDistBare ==
    Def(<<"T">>, <<NoDefault>>,
        Conditional(Ref("T"), LitE(Unknown), ArrayExpr(Ref("T")), LitE(Never)))

\* type ToArrayNonDist<T> = [T] extends [unknown] ? T[] : never
ToArrayNonDist ==
    Def(<<"T">>, <<NoDefault>>,
        Conditional(TupleExpr(<<Item(Ref("T"))>>), TupleExpr(<<Item(LitE(Unknown))>>),
                    ArrayExpr(Ref("T")), LitE(Never)))

\* type MyExclude<T, U> = T extends U ? never : T
MyExclude ==
    Def(<<"T", "U">>, <<NoDefault, NoDefault>>,
        Conditional(Ref("T"), Ref("U"), LitE(Never), Ref("T")))

\* type MyExtract<T, U> = T extends U ? T : never
MyExtract ==
    Def(<<"T", "U">>, <<NoDefault, NoDefault>>,
        Conditional(Ref("T"), Ref("U"), Ref("T"), LitE(Never)))

\* type MyNonNullable<T> = T extends null | undefined ? never : T
MyNonNullable ==
    Def(<<"T">>, <<NoDefault>>,
        Conditional(Ref("T"), UnionExpr(<<LitE(NullT), LitE(UndefinedT)>>),
                    LitE(Never), Ref("T")))

\* type MyReturnType<T> = T extends (...args: unknown[]) => infer R ? R : never
MyReturnType ==
    Def(<<"T">>, <<NoDefault>>,
        Conditional(Ref("T"), FnExpr(ArrayExpr(LitE(Unknown)), Infer("R")),
                    Ref("R"), LitE(Never)))

\* type First<T extends unknown[]> = T extends [infer F, ...unknown[]] ? F : never
First ==
    Def(<<"T">>, <<NoDefault>>,
        Conditional(Ref("T"),
                    TupleExpr(<<Item(Infer("F")), Spread(ArrayExpr(LitE(Unknown)))>>),
                    Ref("F"), LitE(Never)))

\* type Last<T extends unknown[]> = T extends [...unknown[], infer L] ? L : never
Last ==
    Def(<<"T">>, <<NoDefault>>,
        Conditional(Ref("T"),
                    TupleExpr(<<Spread(ArrayExpr(LitE(Unknown))), Item(Infer("L"))>>),
                    Ref("L"), LitE(Never)))

\* Reverse that applies itself to its whole argument: no structural decrease
ReverseNoDecrease ==
    Def(<<"T">>, <<NoDefault>>,
        Conditional(Ref("T"),
                    TupleExpr(<<Item(Infer("First")), Spread(Infer("Rest"))>>),
                    TupleExpr(<<Spread(Apply("Reverse", <<Ref("T")>>)),
                                Item(Ref("First"))>>),
                    TupleExpr(<<>>)))

\* Reverse that leaves the first element out of its result
ReverseWithoutFirst ==
    Def(<<"T">>, <<NoDefault>>,
        Conditional(Ref("T"),
                    TupleExpr(<<Item(Infer("First")), Spread(Infer("Rest"))>>),
                    TupleExpr(<<Spread(Apply("Reverse", <<Ref("Rest")>>))>>),
                    TupleExpr(<<>>)))

\* type Reverse<T extends unknown[]> =
\*     T extends [infer First, ...infer Rest] ? [...Reverse<Rest>, First] : []
Reverse ==
    Def(<<"T">>, <<NoDefault>>,
        Conditional(Ref("T"),
                    TupleExpr(<<Item(Infer("First")), Spread(Infer("Rest"))>>),
                    TupleExpr(<<Spread(Apply("Reverse", <<Ref("Rest")>>)),
                                Item(Ref("First"))>>),
                    TupleExpr(<<>>)))

\* type Zip<T, U> = T extends [infer T1, ...infer TRest]
\*     ? U extends [infer U1, ...infer URest]
\*         ? [[T1, U1], ...Zip<TRest, URest>] : [] : []
Zip ==
    Def(<<"T", "U">>, <<NoDefault, NoDefault>>,
        Conditional(Ref("T"),
            TupleExpr(<<Item(Infer("T1")), Spread(Infer("TRest"))>>),
            Conditional(Ref("U"),
                TupleExpr(<<Item(Infer("U1")), Spread(Infer("URest"))>>),
                TupleExpr(<<Item(TupleExpr(<<Item(Ref("T1")), Item(Ref("U1"))>>)),
                            Spread(Apply("Zip", <<Ref("TRest"), Ref("URest")>>))>>),
                TupleExpr(<<>>)),
            TupleExpr(<<>>)))

\* type MyCapitalize<S extends string> =
\*     S extends `${infer F}${infer R}` ? `${Uppercase<F>}${R}` : S
MyCapitalize ==
    Def(<<"S">>, <<NoDefault>>,
        Conditional(Ref("S"),
                    TemplateLiteral(<<Infer("F"), Infer("R")>>),
                    TemplateLiteral(<<Apply("Uppercase", <<Ref("F")>>), Ref("R")>>),
                    Ref("S")))

\* type StringToUnion<S extends string> =
\*     S extends `${infer F}${infer R}` ? F | StringToUnion<R> : never
StringToUnion ==
    Def(<<"S">>, <<NoDefault>>,
        Conditional(Ref("S"),
                    TemplateLiteral(<<Infer("F"), Infer("R")>>),
                    UnionExpr(<<Ref("F"), Apply("StringToUnion", <<Ref("R")>>)>>),
                    LitE(Never)))

\* type IsNever<T> = [T] extends [never] ? true : false
IsNever ==
    Def(<<"T">>, <<NoDefault>>,
        Conditional(TupleExpr(<<Item(Ref("T"))>>), TupleExpr(<<Item(LitE(Never))>>),
                    LitE(TrueT), LitE(FalseT)))

\* type IsUnion<T, C = T> =
\*     T extends unknown ? [C] extends [T] ? false : true : never
IsUnion ==
    Def(<<"T", "C">>, <<NoDefault, Ref("T")>>,
        Conditional(Ref("T"), LitE(Unknown),
            Conditional(TupleExpr(<<Item(Ref("C"))>>), TupleExpr(<<Item(Ref("T"))>>),
                        LitE(FalseT), LitE(TrueT)),
            LitE(Never)))

\* Permutation whose second conditional does not distribute over K
PermutationNoDistribution ==
    Def(<<"T", "K">>, <<NoDefault, Ref("T")>>,
        Conditional(TupleExpr(<<Item(Ref("T"))>>), TupleExpr(<<Item(LitE(Never))>>),
            TupleExpr(<<>>),
            Conditional(TupleExpr(<<Item(Ref("K"))>>), TupleExpr(<<Item(Ref("K"))>>),
                TupleExpr(<<Item(Ref("K")),
                            Spread(Apply("Permutation",
                                <<Apply("Exclude", <<Ref("T"), Ref("K")>>)>>))>>),
                LitE(Never))))

\* type Permutation<T, K = T> =
\*     [T] extends [never] ? [] : K extends K ? [K, ...Permutation<Exclude<T, K>>] : never
Permutation ==
    Def(<<"T", "K">>, <<NoDefault, Ref("T")>>,
        Conditional(TupleExpr(<<Item(Ref("T"))>>), TupleExpr(<<Item(LitE(Never))>>),
            TupleExpr(<<>>),
            Conditional(Ref("K"), Ref("K"),
                TupleExpr(<<Item(Ref("K")),
                            Spread(Apply("Permutation",
                                <<Apply("Exclude", <<Ref("T"), Ref("K")>>)>>))>>),
                LitE(Never))))

\* type MyPick<T, K extends keyof T> = { [P in K]: T[P] }
MyPick ==
    Def(<<"T", "K">>, <<NoDefault, NoDefault>>,
        MappedType("P", ParamRef("K", Keyof(Ref("T"))),
                   IndexedAccess(Ref("T"), Ref("P")),
                   NoRemap, "keep", "keep"))

\* type MyReadonly<T> = { readonly [P in keyof T]: T[P] }
MyReadonly ==
    Def(<<"T">>, <<NoDefault>>,
        MappedType("P", Keyof(Ref("T")), IndexedAccess(Ref("T"), Ref("P")),
                   NoRemap, "add", "keep"))

\* type MyOmit<T, K extends keyof T> = { [P in keyof T as P extends K ? never : P]: T[P] }
MyOmit ==
    Def(<<"T", "K">>, <<NoDefault, NoDefault>>,
        MappedType("P", Keyof(Ref("T")), IndexedAccess(Ref("T"), Ref("P")),
                   Conditional(Ref("P"), Ref("K"), LitE(Never), Ref("P")),
                   "keep", "keep"))

\* the MyOmit of the basic utilities:
\* type MyOmit<T, K extends keyof any> = { [P in Exclude<keyof T, K>]: T[P] }
MyOmitExclude ==
    Def(<<"T", "K">>, <<NoDefault, NoDefault>>,
        MappedType("P", Apply("Exclude", <<Keyof(Ref("T")), Ref("K")>>),
                   IndexedAccess(Ref("T"), Ref("P")),
                   NoRemap, "keep", "keep"))

\* type TupleToUnion<T extends unknown[]> = T[number]
TupleToUnion ==
    Def(<<"T">>, <<NoDefault>>, IndexedAccess(Ref("T"), LitE(NumberT)))

\* type ObjectEntries<T> = { [K in keyof T]: [K, T[K]] }[keyof T]
ObjectEntries ==
    Def(<<"T">>, <<NoDefault>>,
        IndexedAccess(
            MappedType("K", Keyof(Ref("T")),
                       TupleExpr(<<Item(Ref("K")),
                                   Item(IndexedAccess(Ref("T"), Ref("K")))>>),
                       NoRemap, "keep", "keep"),
            Keyof(Ref("T"))))

\* a definition whose body applies itself to its unchanged argument
Loop == Def(<<"T">>, <<NoDefault>>, Apply("Loop", <<Ref("T")>>))

definitions ==
    [IsString |-> IsString, ToArray |-> ToArray, ToArrayNonDist |-> ToArrayNonDist,
     MyExclude |-> MyExclude, MyExtract |-> MyExtract, MyNonNullable |-> MyNonNullable,
     MyReturnType |-> MyReturnType, First |-> First, Last |-> Last,
     Reverse |-> Reverse, Zip |-> Zip, MyCapitalize |-> MyCapitalize,
     StringToUnion |-> StringToUnion, IsNever |-> IsNever, IsUnion |-> IsUnion,
     Permutation |-> Permutation, Loop |-> Loop,
     MyPick |-> MyPick, MyReadonly |-> MyReadonly, MyOmit |-> MyOmit,
     MyOmitExclude |-> MyOmitExclude,
     TupleToUnion |-> TupleToUnion, ObjectEntries |-> ObjectEntries,
     \* the built-in Exclude, which MyExclude re-implements
     Exclude |-> MyExclude]

(* ------------------------------------------------------------------ *)
(* The evaluator                                                       *)
(* ------------------------------------------------------------------ *)
\* call: the expression and environment handed to evaluate; result: what
\* evaluate returned; order: the order in which the members of a set are
\* visited; again: what evaluate returned when called once more
\* par: the concurrent callers of evaluate, each with its own call, the
\* value of its depth counter when it began, and its result
\* queue: the TaskQueue's private array; dequeued: what the last dequeue()
\* returned, and the queue it was called on; enqueuedNaN: a NaN priority
\* was enqueued since the queue was created or cleared
VARIABLES call, result, order, again, par, queue, dequeued, enqueuedNaN
VARIABLES editor, commands, commandManager, commandCall,
    machine, machineCall,
    particlePool, particles, poolCall,
    account, accountCall,
    emitter, bus,
    cache, now, cacheCall, cacheLog

Orders == {"first", "other"}

\* the member of S visited first: the members of a union are a set, and
\* nothing fixes the order in which an evaluation goes through them
Visit(S) ==
    IF order = "first" \/ Cardinality(S) = 1 THEN CHOOSE x \in S : TRUE
    ELSE CHOOSE x \in S : x # (CHOOSE y \in S : TRUE)

\* the configured maximum call depth
MaxDepth == 7

\* a guard that lets one more call through
DepthExceededLate(d) == d > MaxDepth + 1

\* the recursion guard: the call depth d exceeds the configured maximum
DepthExceeded(d) == d > MaxDepth

RECURSIVE Eval(_, _, _)
RECURSIVE EvalList(_, _, _)
RECURSIVE Match(_, _, _, _)
RECURSIVE MatchItems(_, _, _, _, _)
RECURSIVE MatchTemplate(_, _, _, _, _)
RECURSIVE MatchMembers(_, _, _, _, _)
RECURSIVE MatchAny(_, _, _, _, _)
RECURSIVE BindDefaults(_, _, _, _, _)
RECURSIVE Splice(_, _)
RECURSIVE Concats(_)
RECURSIVE MapFields(_, _, _, _, _, _)
RECURSIVE SetToSeq(_)

\* evaluate a sequence left to right; the first error ends it
EvalList(xs, env, d) ==
    IF xs = <<>> THEN [tag |-> "ok", vals |-> <<>>, steps |-> {}]
    ELSE LET r == Eval(Head(xs), env, d)
         IN IF r.tag = "err" THEN r
            ELSE LET rs == EvalList(Tail(xs), env, d)
                 IN IF rs.tag = "err" THEN Raise(rs, r.steps)
                    ELSE [tag |-> "ok", vals |-> <<r.val>> \o rs.vals,
                          steps |-> r.steps \cup rs.steps]

\* the element sequences a tuple expression denotes: a spread of a tuple
\* splices its elements, a spread of a union of tuples gives one per member
Splice(items, vals) ==
    IF items = <<>> THEN {<<>>}
    ELSE LET v == Head(vals)
             rest == Splice(Tail(items), Tail(vals))
             heads == IF ~Head(items).spread THEN {<<v>>}
                      ELSE IF v.k = "tuple" THEN {v.elems}
                      ELSE IF v.k = "union"
                           THEN {m.elems : m \in {u \in v.members : u.k = "tuple"}}
                      ELSE {}
         IN {h \o t : h \in heads, t \in rest}

\* the texts a template denotes, one per choice of union members
Concats(vals) ==
    IF vals = <<>> THEN {<<>>}
    ELSE LET v == Head(vals)
             heads == IF v.k = "lit" THEN {v.v}
                      ELSE IF v.k = "union" THEN {m.v : m \in v.members}
                      ELSE {}
         IN {h \o t : h \in heads, t \in Concats(Tail(vals))}

IsTextual(v) ==
    \/ v.k = "never"
    \/ v.k = "lit" /\ v.base \in {"string", "number"}
    \/ v.k = "union" /\ \A m \in v.members : m.k = "lit" /\ m.base \in {"string", "number"}

\* bind the parameters left without an argument to their defaults, in order
BindDefaults(def, i, env, d, S) ==
    IF i > Len(def.params) THEN [tag |-> "ok", env |-> env, steps |-> S]
    ELSE LET r == Eval(def.defaults[i], env, d)
         IN IF r.tag = "err" THEN Raise(r, S)
            ELSE BindDefaults(def, i + 1, (def.params[i] :> r.val) @@ env, d,
                              S \cup r.steps)

\* every parameter counted as required, defaults ignored
NumRequiredAll(def) == Len(def.params)

NumRequired(def) ==
    Cardinality({i \in 1..Len(def.params) : def.defaults[i] = NoDefault})

\* the argument count fits no prefix of the parameters that leaves only
\* parameters with a default unbound
ArityMismatch(def, n) == n > Len(def.params) \/ n < NumRequired(def)

\* a failed match gives Never, the else-branch is not evaluated
EvalBranchElseNever(x, checkValue, env, d, S) ==
    LET mr == Match(checkValue, x.pattern, env, d)
    IN CASE mr.m = "err" -> Raise(mr, S)
         [] mr.m = "yes" ->
              LET r == Eval(x.thenBranch, mr.b @@ env, d)
              IN IF r.tag = "err" THEN Raise(r, S \cup mr.steps)
                 ELSE Ok(r.val, S \cup mr.steps \cup r.steps)
         [] OTHER -> Ok(Never, S \cup mr.steps)

\* the names of the pattern stay bound (to the subject) in the else-branch
EvalBranchLeaky(x, checkValue, env, d, S) ==
    LET mr == Match(checkValue, x.pattern, env, d)
    IN CASE mr.m = "err" -> Raise(mr, S)
         [] mr.m = "yes" ->
              LET r == Eval(x.thenBranch, mr.b @@ env, d)
              IN IF r.tag = "err" THEN Raise(r, S \cup mr.steps)
                 ELSE Ok(r.val, S \cup mr.steps \cup r.steps)
         [] OTHER ->
              LET r == Eval(x.elseBranch,
                            [n \in InferNames(x.pattern) |-> checkValue] @@ env, d)
              IN IF r.tag = "err" THEN Raise(r, S \cup mr.steps)
                 ELSE Ok(r.val, S \cup mr.steps \cup r.steps)

\* Conditional on one concrete check value
EvalBranch(x, checkValue, env, d, S) ==
    LET mr == Match(checkValue, x.pattern, env, d)
    IN CASE mr.m = "err" -> Raise(mr, S)
         [] mr.m = "yes" ->
              LET r == Eval(x.thenBranch, mr.b @@ env, d)
              IN IF r.tag = "err" THEN Raise(r, S \cup mr.steps)
                 ELSE Ok(r.val, S \cup mr.steps \cup r.steps)
         [] OTHER ->
              LET r == Eval(x.elseBranch, env, d)
              IN IF r.tag = "err" THEN Raise(r, S \cup mr.steps)
                 ELSE Ok(r.val, S \cup mr.steps \cup r.steps)

\* Conditional evaluated once, against the check value as a whole
EvalOnce(x, env, d) ==
    LET c == Eval(x.check, env, d)
    IN IF c.tag = "err" THEN c ELSE EvalBranch(x, c.val, env, d, c.steps)

\* naked type parameter: the check is a bare Ref bound to a union (never is
\* the union of no members)
Distributes(x, env) ==
    /\ x.check.e = "ref"
    /\ x.check.name \in DOMAIN env
    /\ env[x.check.name].k \in {"union", "never"}

MembersOf(v) == IF v.k = "union" THEN v.members ELSE {}

\* the per-member results re-unioned without normalizing
EvalDistributedRaw(x, env, d) ==
    LET n == x.check.name
        rs == {EvalBranch(x, m, (n :> m) @@ env, d, {}) : m \in MembersOf(env[n])}
        errs == {r \in rs : r.tag = "err"}
        S == UNION {r.steps : r \in rs}
    IN IF errs # {} THEN Raise(CHOOSE r \in errs : TRUE, S)
       ELSE Ok(RawUnion({r.val : r \in rs}), S)

\* the members whose evaluation fails are left out of the result
EvalDistributedLenient(x, env, d) ==
    LET n == x.check.name
        rs == {EvalBranch(x, m, (n :> m) @@ env, d, {}) : m \in MembersOf(env[n])}
        S == UNION {r.steps : r \in rs}
    IN Ok(MkUnion({r.val : r \in {q \in rs : q.tag = "ok"}}), S)

\* only the member visited first is evaluated
EvalDistributedFirst(x, env, d) ==
    LET n == x.check.name
    IN IF MembersOf(env[n]) = {} THEN Ok(Never, {})
       ELSE EvalBranch(x, Visit(MembersOf(env[n])), (n :> Visit(MembersOf(env[n]))) @@ env,
                       d, {})

\* Conditional evaluated once per member, the results re-unioned; the
\* first member visited that fails ends the evaluation
EvalDistributed(x, env, d) ==
    LET n == x.check.name
        ms == MembersOf(env[n])
        R(m) == EvalBranch(x, m, (n :> m) @@ env, d, {})
        bad == {m \in ms : R(m).tag = "err"}
        S == UNION {R(m).steps : m \in ms}
    IN IF bad # {} THEN Raise(R(Visit(bad)), S)
       ELSE Ok(MkUnion({R(m).val : m \in ms}), S)

\* the literal index a number literal denotes, or -1
IndexOf(c) ==
    CASE c = <<"0">> -> 0 [] c = <<"1">> -> 1 [] c = <<"2">> -> 2 [] c = <<"3">> -> 3
      [] OTHER -> -1

\* target[key] for one key
LookupOne(t, key) ==
    CASE t.k = "record" /\ key.k = "lit" /\ key.v \in FieldNames(t) ->
            LET f == FieldOf(t, key.v)
            IN Ok(IF f.optional THEN MkUnion({f.type, UndefinedT}) ELSE f.type, {})
      [] t.k = "tuple" /\ key.k = "lit" /\ key.base = "number"
            /\ IndexOf(key.v) >= 0 /\ IndexOf(key.v) < Len(t.elems) ->
            Ok(t.elems[IndexOf(key.v) + 1], {})
      [] t.k = "tuple" /\ key = NumberT ->
            Ok(MkUnion({t.elems[i] : i \in 1..Len(t.elems)}), {})
      [] t.k = "array" /\ key = NumberT -> Ok(t.elem, {})
      [] OTHER -> Err("NoSuchFieldError", "key", {})

\* only one of the member keys is looked up
LookupSingle(t, key) ==
    IF key.k = "union" THEN LookupOne(t, CHOOSE m \in key.members : TRUE)
    ELSE IF key.k = "never" THEN Ok(Never, {})
    ELSE LookupOne(t, key)

\* target[key]: a union of keys gives the union of the looked-up types
Lookup(t, key) ==
    IF key.k \in {"union", "never"}
    THEN LET rs == {LookupOne(t, m) : m \in MembersOf(key)}
             bad == {m \in MembersOf(key) : LookupOne(t, m).tag = "err"}
         IN IF bad # {} THEN LookupOne(t, Visit(bad))
            ELSE Ok(MkUnion({r.val : r \in rs}), {})
    ELSE LookupOne(t, key)

SetToSeq(S) ==
    IF S = {} THEN <<>>
    ELSE LET x == Visit(S) IN <<x>> \o SetToSeq(S \ {x})

\* adding a modifier that is already there takes it away
ApplyModToggle(mod, cur) ==
    CASE mod = "add" -> ~cur [] mod = "remove" -> FALSE [] OTHER -> cur

ApplyMod(mod, cur) ==
    CASE mod = "add" -> TRUE [] mod = "remove" -> FALSE [] OTHER -> cur

\* the literal keys a key set denotes, in iteration order
KeysOf(v) ==
    IF v.k = "lit" THEN <<v>>
    ELSE IF v.k = "union" THEN SetToSeq({m \in v.members : m.k = "lit"})
    ELSE <<>>

\* an optional field may be undefined without its type saying so
StripUndefined(t) ==
    IF t.k = "union" THEN MkUnion(t.members \ {UndefinedT}) ELSE t

\* one field per key, in iteration order; src is the record whose fields
\* give the modifiers to start from (or Never)
MapFields(keys, x, env, d, src, acc) ==
    IF keys = <<>> THEN acc
    ELSE LET key == Head(keys)
             env1 == (x.keyName :> key) @@ env
             v == Eval(x.valueExpr, env1, d)
             n == IF x.keyRemap = NoRemap THEN Ok(key, {}) ELSE Eval(x.keyRemap, env1, d)
             old == IF src.k = "record" /\ key.v \in FieldNames(src)
                    THEN FieldOf(src, key.v)
                    ELSE Field(key.v, Never, FALSE, FALSE)
         IN IF v.tag = "err" THEN Raise(v, acc.steps)
            ELSE IF n.tag = "err" THEN Raise(n, acc.steps \cup v.steps)
            ELSE MapFields(Tail(keys), x, env, d, src,
                    [tag |-> "ok",
                     vals |-> acc.vals \o
                        [i \in 1..Len(KeysOf(n.val)) |->
                            Field(KeysOf(n.val)[i].v,
                                  IF ApplyMod(x.optionalMod, old.optional)
                                  THEN StripUndefined(v.val) ELSE v.val,
                                  ApplyMod(x.optionalMod, old.optional),
                                  ApplyMod(x.readonlyMod, old.readonly))],
                     steps |-> acc.steps \cup v.steps \cup n.steps])

\* the type whose fields give a mapped type its modifiers: T when the keys
\* are `keyof T`, or a type parameter constrained to `keyof T`
ModifierSource(keys) ==
    IF keys.e = "keyof" THEN keys.target
    ELSE IF keys.e = "param" /\ keys.constraint.e = "keyof" THEN keys.constraint.target
    ELSE LitE(Never)

EvalMapped(x, env, d) ==
    LET ks == Eval(x.sourceKeys, env, d)
        src == Eval(ModifierSource(x.sourceKeys), env, d)
    IN IF ks.tag = "err" THEN ks
       ELSE IF src.tag = "err" THEN src
       ELSE LET Named(f) == \E i \in 1..Len(KeysOf(ks.val)) : KeysOf(ks.val)[i].v = f.name
                picked == SelectSeq(src.val.fields, Named)
                keys == IF src.val.k = "record"
                        THEN [i \in 1..Len(picked) |-> Str(picked[i].name)]
                        ELSE KeysOf(ks.val)
                fs == MapFields(keys, x, env, d, src.val,
                                [tag |-> "ok", vals |-> <<>>, steps |-> ks.steps])
            IN IF fs.tag = "err" THEN fs ELSE Ok(RecordV(fs.vals), fs.steps)

EvalConditional(x, env, d) ==
    IF Distributes(x, env) THEN EvalDistributed(x, env, d) ELSE EvalOnce(x, env, d)

EvalApply(x, env, d) ==
    IF x.name \in {"Uppercase", "Lowercase"} THEN
        LET r == Eval(x.args[1], env, d)
            F(s) == IF x.name = "Uppercase" THEN Uppercase(s) ELSE Lowercase(s)
        IN IF r.tag = "err" THEN r
           ELSE IF IsTextual(r.val)
                THEN Ok(MkUnion({Str(F(s)) : s \in Concats(<<r.val>>)}), r.steps)
           ELSE Ok([k |-> "intrinsic", op |-> x.name, arg |-> r.val], r.steps)
    ELSE IF x.name \notin DOMAIN definitions
    THEN Err("UnboundReferenceError", x.name, {})
    ELSE
        LET def == definitions[x.name]
        IN IF ArityMismatch(def, Len(x.args))
           THEN Err("ArityMismatchError", x.name, {})
           ELSE LET as == EvalList(x.args, env, d)
                IN IF as.tag = "err" THEN as
                   ELSE IF DepthExceeded(d + 1)
                   THEN Err("RecursionLimitError", x.name, as.steps)
                   ELSE LET given == [n \in {def.params[i] : i \in 1..Len(x.args)} |->
                                        as.vals[CHOOSE i \in 1..Len(x.args) :
                                                    def.params[i] = n]]
                            be == BindDefaults(def, Len(x.args) + 1, given, d + 1,
                                               as.steps)
                        IN IF be.tag = "err" THEN be
                           ELSE LET r == Eval(def.body, be.env, d + 1)
                                IN IF r.tag = "err" THEN Raise(r, be.steps)
                                   ELSE Ok(r.val, be.steps \cup r.steps)

Eval(x, env, d) ==
    CASE x.e = "lit" -> Ok(Normalize(x.val), {})
      [] x.e = "ref" ->
            IF x.name \in DOMAIN env THEN Ok(env[x.name], {})
            ELSE IF x.name \in DOMAIN definitions THEN EvalApply(Apply(x.name, <<>>), env, d)
            ELSE Err("UnboundReferenceError", x.name, {})
      [] x.e = "param" ->
            IF x.name \in DOMAIN env THEN Ok(env[x.name], {})
            ELSE Err("UnboundReferenceError", x.name, {})
      [] x.e = "array" ->
            LET r == Eval(x.elem, env, d)
            IN IF r.tag = "err" THEN r ELSE Ok(ArrayV(r.val), r.steps)
      [] x.e = "union" ->
            LET rs == EvalList(x.members, env, d)
            IN IF rs.tag = "err" THEN rs
               ELSE Ok(MkUnion({rs.vals[i] : i \in 1..Len(rs.vals)}), rs.steps)
      [] x.e = "tuple" ->
            LET rs == EvalList([i \in 1..Len(x.items) |-> x.items[i].x], env, d)
            IN IF rs.tag = "err" THEN rs
               ELSE Ok(MkUnion({TupleV(es) : es \in Splice(x.items, rs.vals)}), rs.steps)
      [] x.e = "fn" ->
            LET rs == EvalList(<<x.rest, x.ret>>, env, d)
            IN IF rs.tag = "err" THEN rs
               ELSE Ok(FnV(rs.vals[1], rs.vals[2]), rs.steps)
      [] x.e = "template" ->
            LET rs == EvalList(x.parts, env, d)
            IN IF rs.tag = "err" THEN rs
               ELSE IF \A i \in 1..Len(rs.vals) : IsTextual(rs.vals[i])
               THEN Ok(MkUnion({Str(s) : s \in Concats(rs.vals)}), rs.steps)
               ELSE Ok([k |-> "template", segs |-> rs.vals], rs.steps)
      [] x.e = "object" ->
            LET rs == EvalList([i \in 1..Len(x.fields) |-> x.fields[i].type], env, d)
            IN IF rs.tag = "err" THEN rs
               ELSE Ok(RecordV([i \in 1..Len(x.fields) |->
                                   [x.fields[i] EXCEPT !.type = rs.vals[i]]]), rs.steps)
      [] x.e = "keyof" ->
            LET r == Eval(x.target, env, d)
            IN IF r.tag = "err" THEN r
               ELSE IF r.val.k = "record"
               THEN Ok(MkUnion({Str(n) : n \in FieldNames(r.val)}), r.steps)
               ELSE Ok(Never, r.steps)
      [] x.e = "index" ->
            LET rs == EvalList(<<x.target, x.key>>, env, d)
            IN IF rs.tag = "err" THEN rs
               ELSE LET r == Lookup(rs.vals[1], rs.vals[2])
                    IN IF r.tag = "err" THEN Raise(r, rs.steps)
                       ELSE Ok(r.val, rs.steps)
      [] x.e = "mapped" -> EvalMapped(x, env, d)
      [] x.e = "cond" -> EvalConditional(x, env, d)
      [] x.e = "apply" -> EvalApply(x, env, d)
      [] OTHER -> Err("UnboundReferenceError", x.name, {})

(* ------------------------------------------------------------------ *)
(* The pattern matcher                                                 *)
(* ------------------------------------------------------------------ *)
\* match subjects against patterns one by one, collecting the captures
MatchItems(subjs, pats, env, d, acc) ==
    IF pats = <<>> THEN acc
    ELSE LET r == Match(Head(subjs), Head(pats), env, d)
         IN CASE r.m = "yes" ->
                   MatchItems(Tail(subjs), Tail(pats), env, d,
                              MatchSuccess(r.b @@ acc.b, acc.steps \cup r.steps))
              [] r.m = "no" -> MatchFailure(acc.steps \cup r.steps)
              [] OTHER -> MatchError(r, acc.steps)

\* lengths that do not fit are reported as an error
MatchTupleStrict(es, items, env, d) ==
    LET n == Len(items)
        pats == [i \in 1..n |-> items[i].x]
        sp == {i \in 1..n : items[i].spread}
    IN IF (sp = {} /\ Len(es) # n) \/ (sp # {} /\ Len(es) < n - 1)
       THEN MatchError([err |-> "ArityMismatchError", info |-> "tuple", steps |-> {}], {})
       ELSE IF sp = {} THEN MatchItems(es, pats, env, d, MatchSuccess(EmptyEnv, {}))
       ELSE LET i == CHOOSE j \in sp : \A h \in sp : j <= h
            IN MatchItems(
                   [j \in 1..n |->
                       IF j < i THEN es[j]
                       ELSE IF j = i THEN TupleV(SubSeq(es, i, Len(es) - (n - i)))
                       ELSE es[Len(es) - (n - j)]],
                   pats, env, d, MatchSuccess(EmptyEnv, {}))

\* a tuple subject against a tuple pattern: without a spread the lengths
\* must agree; a spread takes the elements the other items leave over
MatchTuple(es, items, env, d) ==
    LET n == Len(items)
        pats == [i \in 1..n |-> items[i].x]
        sp == {i \in 1..n : items[i].spread}
        none == MatchSuccess(EmptyEnv, {})
    IN IF sp = {}
       THEN IF Len(es) # n THEN MatchFailure({})
            ELSE MatchItems(es, pats, env, d, none)
       ELSE LET i == CHOOSE j \in sp : \A h \in sp : j <= h
                after == n - i
            IN IF Len(es) < n - 1 THEN MatchFailure({})
               ELSE MatchItems(
                        [j \in 1..n |->
                            IF j < i THEN es[j]
                            ELSE IF j = i THEN TupleV(SubSeq(es, i, Len(es) - after))
                            ELSE es[Len(es) - (n - j)]],
                        pats, env, d, none)

\* a hole followed by another hole takes all that is left
HoleLengthGreedy(chars, parts) ==
    IF Len(parts) = 1 THEN Len(chars)
    ELSE IF IsText(parts[2]) THEN FindText(chars, parts[2].val.v)
    ELSE Len(chars)

\* the number of characters the hole at the head of parts takes from
\* chars, or -1 when there is no match.  A hole followed by text takes the
\* characters before the first occurrence of that text, a hole followed by
\* another hole takes exactly one character, the last hole takes all that
\* is left.
HoleLength(chars, parts) ==
    IF Len(parts) = 1 THEN Len(chars)
    ELSE IF IsText(parts[2]) THEN FindText(chars, parts[2].val.v)
    ELSE IF chars = <<>> THEN -1 ELSE 1

\* a string against the parts of a template pattern
MatchTemplate(chars, parts, env, d, acc) ==
    IF parts = <<>>
    THEN IF chars = <<>> THEN acc ELSE MatchFailure(acc.steps)
    ELSE LET p == Head(parts)
         IN IF IsText(p)
            THEN IF IsPrefix(p.val.v, chars)
                 THEN MatchTemplate(Drop(chars, Len(p.val.v)), Tail(parts), env, d, acc)
                 ELSE MatchFailure(acc.steps)
            ELSE LET n == HoleLength(chars, parts)
                 IN IF n < 0 THEN MatchFailure(acc.steps)
                    ELSE LET r == Match(Str(SubSeq(chars, 1, n)), p, env, d)
                         IN CASE r.m = "yes" ->
                                   MatchTemplate(Drop(chars, n), Tail(parts), env, d,
                                       MatchSuccess(r.b @@ acc.b, acc.steps \cup r.steps))
                              [] r.m = "no" -> MatchFailure(acc.steps \cup r.steps)
                              [] OTHER -> MatchError(r, acc.steps)

\* a union subject matches when every member does; a name captures the
\* union of what it captured per member
MatchMembers(S, pat, env, d, acc) ==
    IF S = {} THEN acc
    ELSE LET x == Visit(S)
             r == Match(x, pat, env, d)
         IN CASE r.m = "yes" ->
                   MatchMembers(S \ {x}, pat, env, d,
                       MatchSuccess([n \in DOMAIN acc.b |->
                                        IF n \in DOMAIN r.b
                                        THEN MkUnion({acc.b[n], r.b[n]}) ELSE acc.b[n]],
                                    acc.steps \cup r.steps))
              [] r.m = "no" -> MatchFailure(acc.steps \cup r.steps)
              [] OTHER -> MatchError(r, acc.steps)

\* a union pattern matches when some member does; the first that does
\* gives the captures
MatchAny(subject, pats, env, d, S) ==
    IF pats = <<>> THEN MatchFailure(S)
    ELSE LET r == Match(subject, Head(pats), env, d)
         IN CASE r.m = "yes" -> MatchSuccess(r.b, S \cup r.steps)
              [] r.m = "no" -> MatchAny(subject, Tail(pats), env, d, S \cup r.steps)
              [] OTHER -> MatchError(r, S)

Match(subject, pat, env, d) ==
    IF InferNames(pat) = {}
    THEN LET pv == Eval(pat, env, d)
         IN IF pv.tag = "err" THEN MatchError(pv, {})
            ELSE IF Assignable(subject, pv.val) THEN MatchSuccess(EmptyEnv, pv.steps)
            ELSE MatchFailure(pv.steps)
    ELSE CASE pat.e = "infer" -> MatchSuccess(pat.name :> subject, {})
           [] subject.k \in {"union", "never"} ->
                MatchMembers(MembersOf(subject), pat, env, d,
                             MatchSuccess([n \in InferNames(pat) |-> Never], {}))
           [] pat.e = "union" -> MatchAny(subject, pat.members, env, d, {})
           [] pat.e = "tuple" /\ subject.k = "tuple" ->
                MatchTuple(subject.elems, pat.items, env, d)
           [] pat.e = "array" /\ subject.k = "array" ->
                Match(subject.elem, pat.elem, env, d)
           [] pat.e = "array" /\ subject.k = "tuple" ->
                Match(MkUnion({subject.elems[i] : i \in 1..Len(subject.elems)}),
                      pat.elem, env, d)
           [] pat.e = "fn" /\ subject.k = "fn" ->
                MatchItems(<<subject.params, subject.ret>>, <<pat.rest, pat.ret>>,
                           env, d, MatchSuccess(EmptyEnv, {}))
           [] pat.e = "object" /\ subject.k = "record" ->
                LET names == [i \in 1..Len(pat.fields) |-> pat.fields[i].name]
                IN IF \E i \in 1..Len(names) : names[i] \notin FieldNames(subject)
                   THEN MatchFailure({})
                   ELSE MatchItems([i \in 1..Len(names) |-> FieldOf(subject, names[i]).type],
                                   [i \in 1..Len(names) |-> pat.fields[i].type],
                                   env, d, MatchSuccess(EmptyEnv, {}))
           [] pat.e = "template" /\ subject.k = "lit" /\ subject.base = "string" ->
                MatchTemplate(subject.v, pat.parts, env, d, MatchSuccess(EmptyEnv, {}))
           [] OTHER -> MatchFailure({})

(* ------------------------------------------------------------------ *)
(* evaluate(expr, env): the one entry point; the depth starts at zero  *)
(* ------------------------------------------------------------------ *)
evaluate(expr, env) == Eval(expr, env, 0)

(* ------------------------------------------------------------------ *)
(* The calls the model makes: bounded inputs                           *)
(* ------------------------------------------------------------------ *)
\* most members of a union argument
MaxMembers == 3
\* longest tuple argument
MaxLen == 3
\* longest string literal argument
MaxStr == 3
\* most fields of a record argument
MaxFields == 2
\* concurrent callers of evaluate
NumCallers == 2

Atoms == {StringT, NumberT, Str(<<"a">>), Str(<<"b">>), Str(<<"c">>), Num("1"), NullT}
\* never, every atom and every union of at most MaxMembers atoms
Unions == {MkUnion(S) : S \in {X \in SUBSET Atoms : Cardinality(X) <= MaxMembers}}
SmallUnions == {MkUnion(S) : S \in {X \in SUBSET Atoms : Cardinality(X) <= 2}}
ProperUnions == {u \in Unions : u.k = "union"}

Elems == {Num("1"), Num("2"), Str(<<"a">>)}
TuplesOver(E, n) == {TupleV(es) : es \in UNION {[1..len -> E] : len \in 0..n}}
Tuples == TuplesOver(Elems, MaxLen)
ShortTuples == TuplesOver({Num("1"), Str(<<"a">>)}, MaxLen)

Chars == {"a", "b", "h"}
Strings == {Str(cs) : cs \in UNION {[1..len -> Chars] : len \in 0..MaxStr}}

Functions == {FnV(TupleV(<<>>), StringT), FnV(TupleV(<<StringT, NumberT>>), NumberT),
              FnV(TupleV(<<NumberT>>), MkUnion({StringT, NullT}))}

Lits(args) == [i \in 1..Len(args) |-> LitE(args[i])]

\* a call: the expression and environment handed to evaluate, with the
\* argument values and (for a call built around a sub-expression) that
\* sub-expression and the environment it is evaluated in
MkCall(kind, expr, env, args, sub, subenv) ==
    [kind |-> kind, expr |-> expr, env |-> env, args |-> args,
     sub |-> sub, subenv |-> subenv]

ApplyCall(name, args) ==
    MkCall(name, Apply(name, Lits(args)), EmptyEnv, args, Apply(name, Lits(args)), EmptyEnv)

ApplyCalls ==
    {ApplyCall(n, <<u>>) : n \in {"IsString", "ToArray", "ToArrayNonDist", "MyNonNullable",
                                  "IsNever", "IsUnion", "Loop"}, u \in Unions}
    \cup {ApplyCall(n, <<t, u>>) : n \in {"MyExclude", "MyExtract"},
                                   t \in Unions, u \in SmallUnions}
    \cup {ApplyCall(n, <<t>>) : n \in {"First", "Last", "Reverse", "TupleToUnion"},
                                t \in Tuples}
    \cup {ApplyCall("Zip", <<t, u>>) : t \in ShortTuples, u \in ShortTuples}
    \cup {ApplyCall(n, <<c>>) : n \in {"MyCapitalize", "StringToUnion"}, c \in Strings}
    \cup {ApplyCall("MyReturnType", <<f>>) : f \in Functions \cup Atoms}
    \cup {ApplyCall("Permutation", <<u>>) :
            u \in {MkUnion(S) : S \in {X \in SUBSET {Str(<<"a">>), Str(<<"b">>), Num("1"),
                                                     StringT} :
                                         Cardinality(X) <= MaxMembers}}}

\* Conditionals evaluated directly, with the parameter T bound in env
GenAtoms == {StringT, Str(<<"a">>), Num("1"), NullT, TupleV(<<Num("1")>>)}
GenUnions == {MkUnion(S) : S \in {X \in SUBSET GenAtoms : Cardinality(X) <= MaxMembers}}
FirstPattern == TupleExpr(<<Item(Infer("F")), Spread(ArrayExpr(LitE(Unknown)))>>)
PlainPatterns == {LitE(StringT), LitE(Unknown), LitE(Str(<<"a">>)), LitE(Never),
                  UnionExpr(<<LitE(NullT), LitE(Num("1"))>>)}
GenPatterns == PlainPatterns \cup {FirstPattern}
PlainBranches == {Ref("T"), LitE(Never), ArrayExpr(Ref("T")), LitE(TrueT)}
GenBranches == PlainBranches \cup {Ref("F")}

CondCall(kind, x, u) == MkCall(kind, x, "T" :> u, <<u>>, x, "T" :> u)

\* the check is the bare parameter
BareCalls ==
    {CondCall("bare", Conditional(Ref("T"), p, a, b), u) :
        p \in GenPatterns, a \in GenBranches, b \in GenBranches, u \in GenUnions}

\* the check is the parameter wrapped in a tuple or in an object
WrapTuple(x) == TupleExpr(<<Item(x)>>)
WrapObject(x) == ObjectExpr(<<Field(<<"x">>, x, FALSE, FALSE)>>)
WrappedCalls ==
    {CondCall("wrapTuple", Conditional(WrapTuple(Ref("T")), WrapTuple(p), a, b), u) :
        p \in PlainPatterns, a \in PlainBranches, b \in PlainBranches, u \in GenUnions}
    \cup
    {CondCall("wrapObject", Conditional(WrapObject(Ref("T")), WrapObject(p), a, b), u) :
        p \in PlainPatterns, a \in PlainBranches, b \in PlainBranches, u \in GenUnions}

\* Reverse applied to tuples as long as the call depth allows, and longer
Ones(n) == TupleV([i \in 1..n |-> Num("1")])
DeepCalls ==
    {MkCall("deep", Apply("Reverse", Lits(<<Ones(n)>>)), EmptyEnv, <<Ones(n)>>,
            Apply("Reverse", Lits(<<Ones(n)>>)), EmptyEnv) : n \in 0..(MaxDepth + 1)}

\* a sub-expression, failing or not, inside each kind of enclosing expression
BadExprs ==
    {Ref("Missing"), Apply("Loop", <<LitE(StringT)>>), Apply("First", <<>>),
     IndexedAccess(LitE(TupleV(<<StringT>>)), LitE(Str(<<"z">>)))}
GoodExprs == {LitE(Str(<<"a">>)), LitE(TupleV(<<StringT>>))}
WrapKinds ==
    {"applyArg", "condCheck", "condPattern", "condThen", "condElse", "distributed",
     "mappedValue", "mappedOneValue", "mappedKey", "indexKey", "indexTarget",
     "unionMember", "tupleItem", "tupleSpread", "arrayElem", "templatePart",
     "objectField", "keyofTarget"}
KeysAB == LitE(RawUnion({Str(<<"a">>), Str(<<"b">>)}))
Wrap(ctx, sub) ==
    CASE ctx = "applyArg" -> Apply("ToArray", <<sub>>)
      [] ctx = "condCheck" -> Conditional(sub, LitE(Unknown), LitE(TrueT), LitE(FalseT))
      [] ctx = "condPattern" -> Conditional(LitE(StringT), sub, LitE(TrueT), LitE(FalseT))
      [] ctx = "condThen" -> Conditional(LitE(StringT), LitE(Unknown), sub, LitE(Never))
      [] ctx = "condElse" -> Conditional(LitE(StringT), LitE(NumberT), LitE(TrueT), sub)
      \* T is string | number: the string member takes the then-branch
      [] ctx = "distributed" -> Conditional(Ref("T"), LitE(StringT), sub, LitE(TrueT))
      [] ctx = "mappedValue" -> MappedType("P", KeysAB, sub, NoRemap, "keep", "keep")
      \* only the key "a" evaluates sub
      [] ctx = "mappedOneValue" ->
            MappedType("P", KeysAB,
                       Conditional(Ref("P"), LitE(Str(<<"a">>)), sub, LitE(StringT)),
                       NoRemap, "keep", "keep")
      [] ctx = "mappedKey" -> MappedType("P", KeysAB, LitE(StringT), sub, "keep", "keep")
      [] ctx = "indexKey" ->
            IndexedAccess(LitE(RecordV(<<Field(<<"a">>, NumberT, FALSE, FALSE)>>)), sub)
      [] ctx = "indexTarget" -> IndexedAccess(sub, LitE(NumberT))
      [] ctx = "unionMember" -> UnionExpr(<<LitE(StringT), sub>>)
      [] ctx = "tupleItem" -> TupleExpr(<<Item(LitE(StringT)), Item(sub)>>)
      [] ctx = "tupleSpread" -> TupleExpr(<<Item(LitE(StringT)), Spread(sub)>>)
      [] ctx = "templatePart" -> TemplateLiteral(<<Text(<<"o", "n">>), sub>>)
      [] ctx = "objectField" -> ObjectExpr(<<Field(<<"a">>, sub, FALSE, FALSE)>>)
      [] ctx = "keyofTarget" -> Keyof(sub)
      [] OTHER -> ArrayExpr(sub)
WrapCalls ==
    {MkCall(ctx, Wrap(ctx, sub), "T" :> RawUnion({StringT, NumberT}), <<>>, sub, EmptyEnv) :
        ctx \in WrapKinds, sub \in BadExprs \cup GoodExprs}

\* definitions applied to fewer and more arguments than they have parameters
ArgVals == {Str(<<"a">>), RawUnion({Str(<<"a">>), Str(<<"b">>)}), TupleV(<<Num("1")>>)}
ArityCalls ==
    {MkCall("arity", Apply(n, Lits([i \in 1..len |-> v])), EmptyEnv,
            [i \in 1..len |-> v], Apply(n, Lits([i \in 1..len |-> v])), EmptyEnv) :
        n \in {"Permutation", "IsUnion", "MyExclude", "First"}, len \in 0..3,
        v \in ArgVals}

\* T extends [infer F, string] ? F : F, with and without an outer F
ScopePattern == TupleExpr(<<Item(Infer("F")), Item(LitE(StringT))>>)
ScopeCond == Conditional(Ref("T"), ScopePattern, Ref("F"), Ref("F"))
ScopeSubjects ==
    TuplesOver({Num("1"), Str(<<"a">>), StringT}, 2) \cup {StringT, Str(<<"a">>)}
ScopeCalls ==
    {MkCall("scope", ScopeCond, ("T" :> t) @@ outer, <<t>>, ScopeCond, ("T" :> t) @@ outer) :
        t \in ScopeSubjects, outer \in {EmptyEnv, "F" :> NullT}}

\* T extends (a: infer P) => infer R ? P : never
FnPatternCond ==
    Conditional(Ref("T"), FnExpr(TupleExpr(<<Item(Infer("P"))>>), Infer("R")),
                Ref("P"), LitE(Never))
FnPatternCalls ==
    {MkCall("fnPattern", FnPatternCond, "T" :> f, <<f>>, FnPatternCond, "T" :> f) :
        f \in {FnV(TupleV(<<NumberT>>), StringT), FnV(TupleV(<<StringT, NumberT>>), NumberT)}}

\* records of at most MaxFields fields, the names taken in order from
\* FieldPool, each field of one of the FieldShapes
FieldPool == <<"a", "b", "c", "d">>
FieldShapes ==
    {[type |-> NumberT, optional |-> FALSE, readonly |-> FALSE],
     [type |-> StringT, optional |-> FALSE, readonly |-> FALSE],
     [type |-> StringT, optional |-> TRUE, readonly |-> FALSE],
     [type |-> StringT, optional |-> FALSE, readonly |-> TRUE],
     [type |-> NumberT, optional |-> TRUE, readonly |-> TRUE]}
RECURSIVE FieldsFrom(_, _, _)
FieldsFrom(i, S, f) ==
    IF i > MaxFields THEN <<>>
    ELSE (IF i \in S
          THEN <<Field(<<FieldPool[i]>>, f[i].type, f[i].optional, f[i].readonly)>>
          ELSE <<>>) \o FieldsFrom(i + 1, S, f)
Records ==
    {RecordV(FieldsFrom(1, S, f)) :
        S \in SUBSET (1..MaxFields), f \in [1..MaxFields -> FieldShapes]}
\* the keys a key type names
KeysIn(v) == IF v.k = "union" THEN v.members ELSE IF v.k = "never" THEN {} ELSE {v}
\* the union of the literal keys named in N
KeyUnion(N) == MkUnion({Str(n) : n \in N})

\* R[K] for every record R and every non-empty set K of its keys
IndexCalls ==
    {MkCall("index", IndexedAccess(LitE(r), LitE(KeyUnion(N))), EmptyEnv,
            <<r, KeyUnion(N)>>, IndexedAccess(LitE(r), LitE(KeyUnion(N))), EmptyEnv) :
        r \in Records, N \in SUBSET {<<FieldPool[i]>> : i \in 1..MaxFields}}
    \cup {ApplyCall("ObjectEntries", <<r>>) : r \in Records}

\* Reverse<Reverse<T>> for tuples, some with elements not in normal form
RawElems ==
    Elems \cup {RawUnion({StringT, Never}),
                RawUnion({Num("1"), RawUnion({Num("2"), Str(<<"a">>)})})}
ReverseTwice(t) == Apply("Reverse", <<Apply("Reverse", <<LitE(t)>>)>>)
InvolutionCalls ==
    {MkCall("involution", ReverseTwice(t), EmptyEnv, <<t>>, ReverseTwice(t), EmptyEnv) :
        t \in TuplesOver(RawElems, MaxLen)}

\* [MyPick<R, K>, Omit<R, K>] for every record R and every set K of its
\* keys, with each of the two MyOmit of the source
PickAndOmit(omit, r, N) ==
    TupleExpr(<<Item(Apply("MyPick", <<LitE(r), LitE(KeyUnion(N))>>)),
                Item(Apply(omit, <<LitE(r), LitE(KeyUnion(N))>>))>>)
DualityCalls ==
    {MkCall(omit, PickAndOmit(omit, r, N), EmptyEnv, <<r, KeyUnion(N)>>,
            PickAndOmit(omit, r, N), EmptyEnv) :
        omit \in {"MyOmit", "MyOmitExclude"}, r \in Records, N \in SUBSET
            {<<FieldPool[i]>> : i \in 1..MaxFields}}

\* MyReadonly<MyReadonly<R>> for every record R
ReadonlyTwice(r) == Apply("MyReadonly", <<Apply("MyReadonly", <<LitE(r)>>)>>)
ReadonlyCalls ==
    {MkCall("readonlyTwice", ReadonlyTwice(r), EmptyEnv, <<r>>,
            Apply("MyReadonly", <<LitE(r)>>), EmptyEnv) : r \in Records}

\* values not in normal form: unions and intersections nested in each
\* other, alone and inside tuples, arrays, records and function types
Leaves == {Never, StringT, Num("1"), Str(<<"a">>)}
Level1 == {RawUnion(S) : S \in SUBSET Leaves} \cup {RawIntersection(S) : S \in SUBSET Leaves}
Level2 ==
    {RawUnion({a, b}) : a \in Level1, b \in Leaves \cup Level1}
    \cup {RawIntersection({a, b}) : a \in Level1, b \in Leaves}
Level3 == {RawUnion({a, NumberT}) : a \in Level2}
Nested == Level1 \cup Level2 \cup Level3
RawValues ==
    Nested
    \cup {TupleV(<<u, StringT>>) : u \in Level2}
    \cup {ArrayV(u) : u \in Level1}
    \cup {RecordV(<<Field(<<"a">>, u, TRUE, FALSE)>>) : u \in Level1}
    \cup {FnV(TupleV(<<u>>), u) : u \in Level1}
NormalizeCalls ==
    {MkCall("normalize", LitE(v), EmptyEnv, <<v>>, LitE(v), EmptyEnv) : v \in RawValues}

\* Union({Never, X}) for every X other than Never, and the empty union
AbsorbCalls ==
    {MkCall("absorb", LitE(RawUnion({Never, x})), EmptyEnv, <<x>>, LitE(x), EmptyEnv) :
        x \in (RawValues \cup Atoms \cup Tuples) \ {Never}}
    \cup {MkCall("emptyUnion", LitE(RawUnion({})), EmptyEnv, <<>>, LitE(RawUnion({})),
                  EmptyEnv)}

\* calls in which more than one of the members visited fails: the two
\* members of T fail with different errors, or one member of the subject
\* does not match and the other makes the pattern fail
TwoErrors ==
    Conditional(Ref("T"), LitE(StringT), Ref("Missing"), Apply("First", <<>>))
FailOrMismatch ==
    Conditional(TupleExpr(<<Item(Ref("T"))>>),
                TupleExpr(<<Item(TupleExpr(<<Item(Infer("F")), Item(Ref("Missing"))>>))>>),
                Ref("F"), LitE(Never))
MultiErrorCalls ==
    {MkCall("multiError", TwoErrors, "T" :> u, <<u>>, TwoErrors, "T" :> u) :
        u \in {RawUnion({StringT, NumberT}), RawUnion({Str(<<"a">>), Num("1"), NullT})}}
    \cup
    {MkCall("multiError", FailOrMismatch, "T" :> u, <<u>>, FailOrMismatch, "T" :> u) :
        u \in {RawUnion({TupleV(<<Num("1")>>), TupleV(<<Num("1"), Num("2")>>)})}}
Filtered(C) == {c \in C : KeysIn(c.args[2]) \subseteq {Str(n) : n \in FieldNames(c.args[1])}}
OrderCalls ==
    ApplyCalls \cup WrapCalls \cup IndexCalls \cup Filtered(DualityCalls)
    \cup ScopeCalls \cup MultiErrorCalls

\* the calls concurrent callers make: one that needs every call the depth
\* limit allows, one that never ends by itself, and some that bind names
ParCalls ==
    {c \in DeepCalls : Len(c.args[1].elems) = MaxDepth - 1}
    \cup {ApplyCall("Loop", <<StringT>>),
          ApplyCall("ToArray", <<RawUnion({StringT, NumberT})>>),
          ApplyCall("MyCapitalize", <<Str(<<"h", "a">>)>>)}
    \cup {c \in ScopeCalls : c.args[1] \in {StringT, TupleV(<<Num("1"), StringT>>)}}

Pending == [tag |-> "pending"]

(* ------------------------------------------------------------------ *)
(* class TaskQueue<T>                                                   *)
(* ------------------------------------------------------------------ *)
\* a value of type number: a finite number or NaN
Finite(n) == [nan |-> FALSE, n |-> n]
NaN == [nan |-> TRUE, n |-> 0]

\* a value of type T | undefined
Task(s) == [defined |-> TRUE, text |-> s]
Undefined == [defined |-> FALSE, text |-> ""]

\* b - a on numbers
Minus(b, a) == IF a.nan \/ b.nan THEN NaN ELSE Finite(b.n - a.n)

\* (a, b) => b.priority - a.priority
compare(a, b) == Minus(b.priority, a.priority)

\* Array.prototype.sort reads the comparator's result v: a goes after b
\* when v > 0; NaN counts as +0
After(a, b) == ~compare(a, b).nan /\ compare(a, b).n > 0

\* the comparator orders the elements of q consistently: being "equal"
\* under it is transitive
Consistent(q) ==
    \A i, j, k \in 1..Len(q) :
        (~After(q[i], q[j]) /\ ~After(q[j], q[i]) /\ ~After(q[j], q[k]) /\ ~After(q[k], q[j]))
            => (~After(q[i], q[k]) /\ ~After(q[k], q[i]))

\* x put into the sorted s before the first element it must precede
InsertSorted(s, x) ==
    LET later == {i \in 1..Len(s) : After(s[i], x)}
        at == IF later = {} THEN Len(s) + 1
              ELSE CHOOSE i \in later : \A j \in later : i <= j
    IN SubSeq(s, 1, at - 1) \o <<x>> \o SubSeq(s, at, Len(s))

\* the stable sort of q
RECURSIVE StableSort(_)
StableSort(q) ==
    IF q = <<>> THEN <<>>
    ELSE InsertSorted(StableSort(SubSeq(q, 1, Len(q) - 1)), q[Len(q)])

Rearrangements(q) ==
    {[i \in 1..Len(q) |-> q[p[i]]] : p \in {f \in [1..Len(q) -> 1..Len(q)] :
                                          \A i, j \in 1..Len(q) : f[i] = f[j] => i = j}}

\* this.queue.sort(...): stable; with a comparator that is not consistent
\* the order is implementation-defined
Sort(q) == IF Consistent(q) THEN {StableSort(q)} ELSE Rearrangements(q)

\* peek(), isEmpty(), size()
peek == IF queue = <<>> THEN Undefined ELSE queue[1].task
isEmpty == Len(queue) = 0
size == Len(queue)

NoDequeue == [called |-> FALSE]

\* most tasks in the queue
MaxQueue == 3
\* priority: number = 0
DefaultPriority == Finite(0)
\* the enqueue calls made: the three of the source, a tie, a call without
\* a priority, an undefined task and a NaN priority
Enqueues ==
    {<<Task("low"), Finite(1)>>, <<Task("high"), Finite(10)>>, <<Task("mid"), Finite(5)>>,
     <<Task("urgent"), Finite(10)>>, <<Task("later"), DefaultPriority>>,
     <<Undefined, Finite(5)>>, <<Task("broken"), NaN>>}

(* ------------------------------------------------------------------ *)
(* TextEditor, AppendCommand, CommandManager                            *)
(* ------------------------------------------------------------------ *)
\* most commands in the history
MaxHistory == 3
\* most texts in the editor content
MaxContent == 4

\* the AppendCommand objects: new AppendCommand(editor, "Hello "),
\* new AppendCommand(editor, "World"); a content is the sequence of the
\* texts appended
CommandObjects == {"hello", "world"}
AppendCommand(text) == [text |-> text, previousContent |-> <<>>]
TextOf(c) == IF c = "hello" THEN "Hello " ELSE "World"

\* TextEditor.append, TextEditor.setContent
TextEditor_append(ed, text) == [ed EXCEPT !.content = @ \o <<text>>]
TextEditor_setContent(ed, content) == [ed EXCEPT !.content = content]

\* a redo stack that survives execute
RedoStackKept(stack) == stack

\* this.redoStack = []
RedoStackCleared(stack) == <<>>

NoCommandCall == [op |-> "none", fresh |-> FALSE]

(* ------------------------------------------------------------------ *)
(* class StateMachine                                                   *)
(* ------------------------------------------------------------------ *)
\* most listeners registered
MaxListeners == 2

transitions ==
    <<[from |-> "idle", to |-> "loading", action |-> "fetch"],
      [from |-> "loading", to |-> "success", action |-> "resolve"],
      [from |-> "loading", to |-> "error", action |-> "reject"],
      [from |-> "success", to |-> "idle", action |-> "reset"],
      [from |-> "error", to |-> "idle", action |-> "reset"],
      [from |-> "error", to |-> "loading", action |-> "retry"]>>

\* the actions asked for: those of the table and one it does not have
Actions == {transitions[i].action : i \in 1..Len(transitions)} \cup {"cancel"}
\* listeners that record the state they are called with
Listeners == {"log", "count"}

\* a test that looks at the state only
MatchesFrom(t, state, action) == t.from = state

\* t => t.from === this.currentState && t.action === action
Matches(t, state, action) == t.from = state /\ t.action = action

\* this.transitions.find(...): the index of the first match, 0 for none
Find(state, action) ==
    LET hits == {i \in 1..Len(transitions) : Matches(transitions[i], state, action)}
    IN IF hits = {} THEN 0 ELSE CHOOSE i \in hits : \A j \in hits : i <= j

\* getState(), canTransition(action)
getState == machine.currentState
canTransition(action) ==
    \E i \in 1..Len(transitions) : Matches(transitions[i], machine.currentState, action)

\* notifyListeners(): the calls made, in order
notifyListeners(listeners, state) ==
    [i \in 1..Len(listeners) |-> [listener |-> listeners[i], state |-> state]]

NoMachineCall == [op |-> "none"]

(* ------------------------------------------------------------------ *)
(* class ObjectPool<T>, particlePool                                    *)
(* ------------------------------------------------------------------ *)
\* initialSize, and the most objects the factory makes
InitialSize == 2
MaxObjects == 3

\* () => ({ x: 0, y: 0, active: false }); (p) => { p.x = 0; ... }
factory == [x |-> 0, y |-> 0, active |-> FALSE]
reset(p) == [p EXCEPT !.x = 0, !.y = 0, !.active = FALSE]
\* p1.x = 100; p1.y = 200; p1.active = true
Moved(p) == [p EXCEPT !.x = 100, !.y = 200, !.active = TRUE]

\* an object the factory did not make; the factory's objects are 1, 2, ...
Foreign == 0

\* a test that takes every object for one in use
InUseAlways(pool, obj) == TRUE

\* this.inUse.has(obj)
InUse(pool, obj) == obj \in pool.inUse

\* getStats()
getStats == [available |-> Len(particlePool.available),
             inUse |-> Cardinality(particlePool.inUse)]

NoPoolCall == [op |-> "none"]

(* ------------------------------------------------------------------ *)
(* class BankAccount, account                                           *)
(* ------------------------------------------------------------------ *)
\* most transactions recorded
MaxTransactions == 4
\* new BankAccount("1234567890", "张三", 1000)
InitialDeposit == Finite(1000)
\* the amounts asked for: negative, zero, the source's 500 and 200, one
\* above every balance of the model, and NaN
Amounts == {Finite(0 - 100), Finite(0), Finite(200), Finite(500), Finite(5000), NaN}

\* a + b, a <= b and a > b on numbers: a comparison with NaN is false
Plus(a, b) == IF a.nan \/ b.nan THEN NaN ELSE Finite(a.n + b.n)
LessOrEqual(a, b) == ~a.nan /\ ~b.nan /\ a.n <= b.n
Greater(a, b) == ~a.nan /\ ~b.nan /\ a.n > b.n

\* a withdrawal that is never refused for the balance
ExceedsNever(amount, balance) == FALSE

\* amount > this.balance
Exceeds(amount, balance) == Greater(amount, balance)

\* getBalance(), getTransactionHistory()
getBalance == account.balance
getTransactionHistory == account.transactions

NoAccountCall == [op |-> "none"]

(* ------------------------------------------------------------------ *)
(* class EventEmitter, class EventBus                                   *)
(* ------------------------------------------------------------------ *)
\* most emit calls made from outside
MaxEmits == 2

Events == {"login", "logout"}
\* the handlers given to on and once: two that only record the call, and
\* one that emits the event it handles again the first time it runs
Handlers == {"logger", "first", "again"}
Emitting(h) == h = "again"

\* the function kept in the Set: the handler itself for on, the
\* onceHandler closure for once
Callback(kind, h) == [kind |-> kind, handler |-> h]

\* on(event, handler): Set.add keeps the insertion order and no duplicate
EventEmitter_on(e, event, cb) ==
    IF \E i \in 1..Len(e.handlers[event]) : e.handlers[event][i] = cb THEN e
    ELSE [e EXCEPT !.handlers[event] = Append(@, cb)]

\* off(event, handler)
EventEmitter_off(e, event, cb) ==
    [e EXCEPT !.handlers[event] = SelectSeq(@, LAMBDA c : c # cb)]

\* once(event, handler)
EventEmitter_once(e, event, h) == EventEmitter_on(e, event, Callback("once", h))

\* forEach on the Set, then handler(data) and, for a onceHandler,
\* this.off(event, onceHandler) after it; a handler may emit again.
\* visited: the entries forEach has gone through
RECURSIVE EventEmitter_emit(_, _, _)
EventEmitter_emit(e, event, visited) ==
    LET left == SelectSeq(e.handlers[event], LAMBDA c : c \notin visited)
    IN IF left = <<>> THEN e
       ELSE LET cb == left[1]
                h == cb.handler
                called == [e EXCEPT !.calls[h] = @ + 1]
                ran == IF Emitting(h) /\ e.calls[h] = 0
                       THEN EventEmitter_emit(called, event, {})
                       ELSE called
                after == IF cb.kind = "once" THEN EventEmitter_off(ran, event, cb)
                         ELSE ran
            IN EventEmitter_emit(after, event, visited \cup {cb})

NoHandlers == [handlers |-> [event \in Events |-> <<>>],
               calls |-> [h \in Handlers |-> 0],
               registered |-> [h \in Handlers |-> "no"],
               emits |-> 0]

(* ------------------------------------------------------------------ *)
(* The caches with a time to live: ExpiringStorage, CacheManager,       *)
(* Cache, TypedCache                                                    *)
(* ------------------------------------------------------------------ *)
\* most set calls, and the latest time of the clock in steps
MaxSets == 2
MaxTicks == 3
\* ttlMs: number = 60000, defaultTtl: number = 60000
DefaultTtl == 60000
\* the clock moves in steps of half that
Step == 30000

CacheClasses == {"ExpiringStorage", "CacheManager", "Cache", "TypedCache"}
Keys == {"u1", "p1"}
\* the values set, in the order of the set calls: every call sets a value
\* of its own
Values == <<"a", "b", "c", "d">>
\* the ttl arguments: left out, one step, and one in the past
Omitted == [given |-> FALSE, n |-> 0]
Given(n) == [given |-> TRUE, n |-> n]
Ttls == {Omitted, Given(Step), Given(0 - Step)}
\* new ExpiringStorage<string>(5000) has a default of its own; the other
\* classes have the default of set's parameter
DefaultTtlOf(class) == IF class = "ExpiringStorage" THEN Step ELSE DefaultTtl

\* an entry counted as expired already at its expiry
ExpiredAtExpiry(time, expiry) == time >= expiry

\* Date.now() > item.expiry
Expired(time, expiry) == time > expiry

\* ttl ?? this.defaultTtl
TtlOf(c, ttl) == IF ttl.given THEN ttl.n ELSE c.defaultTtl

NoEntry == [present |-> FALSE]
Entry(value, expiry) == [present |-> TRUE, value |-> value, expiry |-> expiry]

\* no cache constructed yet
NoCache == [class |-> "none"]
NoCacheCall == [op |-> "none"]
NoCacheLog == [latest |-> [k \in Keys |-> NoEntry], expired |-> {}, sets |-> 0]

\* the variables of the evaluator and of the task queue
evaluator == <<call, result, order, again, par, queue, dequeued, enqueuedNaN>>

\* the objects of the practical examples, each after its construction
objects == <<editor, commands, commandManager, commandCall, machine, machineCall, particlePool, particles, poolCall, account, accountCall, emitter, bus, cache, now, cacheCall, cacheLog>>

ObjectsNew ==
    /\ editor = [content |-> <<>>]
    /\ commands = [c \in CommandObjects |-> AppendCommand(TextOf(c))]
    /\ commandManager = [history |-> <<>>, redoStack |-> <<>>]
    /\ commandCall = NoCommandCall
    /\ machine = [currentState |-> "idle", listeners |-> <<>>]
    /\ machineCall = NoMachineCall
    /\ particlePool = [available |-> [i \in 1..InitialSize |-> i], inUse |-> {},
                       made |-> InitialSize]
    /\ particles = [i \in 1..InitialSize |-> factory]
    /\ poolCall = NoPoolCall
    /\ account = [balance |-> InitialDeposit,
                  transactions |-> <<[type |-> "deposit", amount |-> InitialDeposit]>>]
    /\ accountCall = NoAccountCall
    /\ emitter = NoHandlers
    /\ bus = NoHandlers
    /\ cache = NoCache
    /\ now = 0
    /\ cacheCall = NoCacheCall
    /\ cacheLog = NoCacheLog

\* everything but the variables of Commands
notCommands == <<evaluator, machine, machineCall, particlePool, particles, poolCall, account, accountCall, emitter, bus, cache, now, cacheCall, cacheLog>>

\* everything but the variables of Machine
notMachine == <<evaluator, editor, commands, commandManager, commandCall, particlePool, particles, poolCall, account, accountCall, emitter, bus, cache, now, cacheCall, cacheLog>>

\* everything but the variables of Pool
notPool == <<evaluator, editor, commands, commandManager, commandCall, machine, machineCall, account, accountCall, emitter, bus, cache, now, cacheCall, cacheLog>>

\* everything but the variables of Account
notAccount == <<evaluator, editor, commands, commandManager, commandCall, machine, machineCall, particlePool, particles, poolCall, emitter, bus, cache, now, cacheCall, cacheLog>>

\* everything but the variables of Events
notEvents == <<evaluator, editor, commands, commandManager, commandCall, machine, machineCall, particlePool, particles, poolCall, account, accountCall, cache, now, cacheCall, cacheLog>>

\* everything but the variables of Cache
notCache == <<evaluator, editor, commands, commandManager, commandCall, machine, machineCall, particlePool, particles, poolCall, account, accountCall, emitter, bus>>

vars == <<evaluator, objects>>

Calls ==
    ApplyCalls \cup BareCalls \cup WrappedCalls \cup DeepCalls \cup WrapCalls
    \cup ArityCalls \cup ScopeCalls \cup FnPatternCalls \cup IndexCalls
    \cup InvolutionCalls \cup ReadonlyCalls \cup NormalizeCalls \cup AbsorbCalls \cup Filtered(DualityCalls)

\* no concurrent callers
NoPar == [pc |-> <<>>, call |-> <<>>, depth |-> <<>>, busy |-> <<>>, result |-> <<>>]

Init ==
    /\ call \in Calls
    /\ result = Pending
    /\ order = "first"
    /\ again = Pending
    /\ par = NoPar
    /\ queue = <<>>
    /\ dequeued = NoDequeue
    /\ enqueuedNaN = FALSE
    /\ ObjectsNew

\* evaluate(expr, env) -> TypeValue | EvaluationError
Evaluate ==
    /\ result = Pending
    /\ result' = evaluate(call.expr, call.env)
    /\ UNCHANGED <<call, order, again, par, queue, dequeued, enqueuedNaN, objects>>

Next == Evaluate

Spec == Init /\ [][Next]_vars

\* the same call made twice, the members of sets visited in another order
\* the second time
InitTwice ==
    /\ call \in OrderCalls
    /\ result = Pending
    /\ order = "first"
    /\ again = Pending
    /\ par = NoPar
    /\ queue = <<>>
    /\ dequeued = NoDequeue
    /\ enqueuedNaN = FALSE
    /\ ObjectsNew

Reorder ==
    /\ result # Pending
    /\ order = "first"
    /\ order' \in Orders \ {order}
    /\ UNCHANGED <<call, result, again, par, queue, dequeued, enqueuedNaN, objects>>

EvaluateAgain ==
    /\ result # Pending
    /\ order = "other"
    /\ again = Pending
    /\ again' = evaluate(call.expr, call.env)
    /\ UNCHANGED <<call, result, order, par, queue, dequeued, enqueuedNaN, objects>>

NextTwice == Evaluate \/ Reorder \/ EvaluateAgain

SpecTwice == InitTwice /\ [][NextTwice]_vars

\* concurrent callers of evaluate, all reading the one definitions table;
\* a call begins (its depth counter is set) and later returns
Callers == 1..NumCallers

\* one depth counter for all callers: a call begins at the depth of the
\* calls in progress
EntryDepthShared(p) == Cardinality({q \in Callers : par.pc[q] = "running"})

\* the depth counter belongs to the call: it starts at zero
EntryDepth(p) == 0

InitPar ==
    /\ call \in {c \in ParCalls : c.kind = "Loop"}
    /\ result = Pending
    /\ order = "first"
    /\ again = Pending
    /\ par \in {[pc |-> [p \in Callers |-> "idle"], call |-> cs,
                  depth |-> [p \in Callers |-> 0], busy |-> [p \in Callers |-> 0],
                  result |-> [p \in Callers |-> Pending]] : cs \in [Callers -> ParCalls]}
    /\ queue = <<>>
    /\ dequeued = NoDequeue
    /\ enqueuedNaN = FALSE
    /\ ObjectsNew

Begin(p) ==
    /\ par.pc[p] = "idle"
    /\ par' = [par EXCEPT !.pc[p] = "running",
                           !.depth[p] = EntryDepth(p),
                           !.busy[p] = Cardinality({q \in Callers : par.pc[q] = "running"})]
    /\ UNCHANGED <<call, result, order, again, queue, dequeued, enqueuedNaN, objects>>

Return(p) ==
    /\ par.pc[p] = "running"
    /\ par' = [par EXCEPT !.pc[p] = "done",
                           !.result[p] = Eval(par.call[p].expr, par.call[p].env,
                                              par.depth[p])]
    /\ UNCHANGED <<call, result, order, again, queue, dequeued, enqueuedNaN, objects>>

NextPar == \E p \in Callers : Begin(p) \/ Return(p)

SpecPar == InitPar /\ [][NextPar]_vars

\* const taskQueue = new TaskQueue<string>(), and the calls made on it
InitQueue ==
    /\ call \in {c \in ParCalls : c.kind = "Loop"}
    /\ result = Pending
    /\ order = "first"
    /\ again = Pending
    /\ par = NoPar
    /\ queue = <<>>
    /\ dequeued = NoDequeue
    /\ enqueuedNaN = FALSE
    /\ ObjectsNew

enqueue(task, priority) ==
    /\ Len(queue) < MaxQueue
    /\ queue' \in Sort(Append(queue, [task |-> task, priority |-> priority]))
    /\ dequeued' = NoDequeue
    /\ enqueuedNaN' = (enqueuedNaN \/ priority.nan)
    /\ UNCHANGED <<call, result, order, again, par, objects>>

dequeue ==
    /\ dequeued' = [called |-> TRUE, before |-> queue,
                    value |-> IF queue = <<>> THEN Undefined ELSE Head(queue).task]
    /\ queue' = IF queue = <<>> THEN <<>> ELSE Tail(queue)
    /\ UNCHANGED <<call, result, order, again, par, enqueuedNaN, objects>>

clear ==
    /\ queue' = <<>>
    /\ dequeued' = NoDequeue
    /\ enqueuedNaN' = FALSE
    /\ UNCHANGED <<call, result, order, again, par, objects>>

NextQueue ==
    \/ \E e \in Enqueues : enqueue(e[1], e[2])
    \/ dequeue
    \/ clear

SpecQueue == InitQueue /\ [][NextQueue]_vars

\* every object of the practical examples right after its construction
InitObjects ==
    /\ call \in {c \in ParCalls : c.kind = "Loop"}
    /\ result = Pending
    /\ order = "first"
    /\ again = Pending
    /\ par = NoPar
    /\ queue = <<>>
    /\ dequeued = NoDequeue
    /\ enqueuedNaN = FALSE
    /\ ObjectsNew

\* what the three objects are before a call
CommandState == [editor |-> editor, commands |-> commands, manager |-> commandManager]

\* CommandManager.execute(command), with AppendCommand.execute
CommandManager_execute(c) ==
    /\ Len(commandManager.history) < MaxHistory
    /\ Len(editor.content) < MaxContent
    /\ commands' = [commands EXCEPT ![c].previousContent = editor.content]
    /\ editor' = TextEditor_append(editor, commands[c].text)
    /\ commandManager' = [history |-> Append(commandManager.history, c),
                          redoStack |-> RedoStackCleared(commandManager.redoStack)]
    /\ commandCall' = [op |-> "execute", before |-> CommandState, fresh |-> TRUE]
    /\ UNCHANGED notCommands

\* CommandManager.undo(), with AppendCommand.undo
CommandManager_undo ==
    /\ IF commandManager.history # <<>>
       THEN LET c == commandManager.history[Len(commandManager.history)]
            IN /\ editor' = TextEditor_setContent(editor, commands[c].previousContent)
               /\ commandManager' =
                      [history |-> SubSeq(commandManager.history, 1,
                                          Len(commandManager.history) - 1),
                       redoStack |-> Append(commandManager.redoStack, c)]
       ELSE UNCHANGED <<editor, commandManager>>
    /\ commandCall' = [op |-> "undo", before |-> CommandState, fresh |-> FALSE]
    /\ UNCHANGED commands
    /\ UNCHANGED notCommands

\* CommandManager.redo(), with AppendCommand.execute
CommandManager_redo ==
    /\ Len(editor.content) < MaxContent
    /\ IF commandManager.redoStack # <<>>
       THEN LET c == commandManager.redoStack[Len(commandManager.redoStack)]
            IN /\ commands' = [commands EXCEPT ![c].previousContent = editor.content]
               /\ editor' = TextEditor_append(editor, commands[c].text)
               /\ commandManager' =
                      [history |-> Append(commandManager.history, c),
                       redoStack |-> SubSeq(commandManager.redoStack, 1,
                                            Len(commandManager.redoStack) - 1)]
       ELSE UNCHANGED <<editor, commands, commandManager>>
    /\ commandCall' = [op |-> "redo", before |-> CommandState,
                       fresh |-> commandCall.fresh]
    /\ UNCHANGED notCommands

NextCommands ==
    \/ \E c \in CommandObjects : CommandManager_execute(c)
    \/ CommandManager_undo
    \/ CommandManager_redo

SpecCommands == InitObjects /\ [][NextCommands]_vars

\* StateMachine.transition(action)
StateMachine_transition(action) ==
    /\ LET found == Find(machine.currentState, action)
       IN IF found # 0
          THEN /\ machine' = [machine EXCEPT !.currentState = transitions[found].to]
               /\ machineCall' =
                      [op |-> "transition", action |-> action,
                       before |-> machine.currentState,
                       calls |-> notifyListeners(machine.listeners, transitions[found].to),
                       returned |-> TRUE]
          ELSE /\ machine' = machine
               /\ machineCall' =
                      [op |-> "transition", action |-> action,
                       before |-> machine.currentState, calls |-> <<>>,
                       returned |-> FALSE]
    /\ UNCHANGED notMachine

\* StateMachine.onStateChange(listener)
StateMachine_onStateChange(listener) ==
    /\ Len(machine.listeners) < MaxListeners
    /\ machine' = [machine EXCEPT !.listeners = Append(@, listener)]
    /\ machineCall' = [op |-> "onStateChange"]
    /\ UNCHANGED notMachine

NextMachine ==
    \/ \E action \in Actions : StateMachine_transition(action)
    \/ \E listener \in Listeners : StateMachine_onStateChange(listener)

SpecMachine == InitObjects /\ [][NextMachine]_vars

PoolState == [pool |-> particlePool, particles |-> particles]

\* ObjectPool.acquire()
ObjectPool_acquire ==
    /\ IF Len(particlePool.available) > 0
       THEN LET obj == particlePool.available[Len(particlePool.available)]
            IN /\ particlePool' =
                      [particlePool EXCEPT
                          !.available = SubSeq(@, 1, Len(@) - 1),
                          !.inUse = @ \cup {obj}]
               /\ particles' = particles
               /\ poolCall' = [op |-> "acquire", obj |-> obj, before |-> PoolState]
       ELSE LET obj == particlePool.made + 1
            IN /\ particlePool.made < MaxObjects
               /\ particlePool' = [particlePool EXCEPT !.made = obj,
                                                       !.inUse = @ \cup {obj}]
               /\ particles' = (obj :> factory) @@ particles
               /\ poolCall' = [op |-> "acquire", obj |-> obj, before |-> PoolState]
    /\ UNCHANGED notPool

\* ObjectPool.release(obj)
ObjectPool_release(obj) ==
    /\ IF InUse(particlePool, obj)
       THEN /\ particlePool' = [particlePool EXCEPT !.inUse = @ \ {obj},
                                                    !.available = Append(@, obj)]
            /\ particles' = [particles EXCEPT ![obj] = reset(@)]
       ELSE UNCHANGED <<particlePool, particles>>
    /\ poolCall' = [op |-> "release", obj |-> obj, before |-> PoolState]
    /\ UNCHANGED notPool

\* the holder of an acquired object writes to it
UseParticle(obj) ==
    /\ obj \in particlePool.inUse
    /\ particles[obj] # Moved(particles[obj])
    /\ particles' = [particles EXCEPT ![obj] = Moved(@)]
    /\ poolCall' = [op |-> "use", obj |-> obj, before |-> PoolState]
    /\ UNCHANGED particlePool
    /\ UNCHANGED notPool

NextPool ==
    \/ ObjectPool_acquire
    \/ \E obj \in {Foreign} \cup 1..particlePool.made : ObjectPool_release(obj)
    \/ \E obj \in 1..particlePool.made : UseParticle(obj)

SpecPool == InitObjects /\ [][NextPool]_vars

\* BankAccount.deposit(amount)
BankAccount_deposit(amount) ==
    /\ Len(account.transactions) < MaxTransactions
    /\ IF LessOrEqual(amount, Finite(0))
       THEN /\ account' = account
            /\ accountCall' = [op |-> "deposit", amount |-> amount, before |-> account,
                               returned |-> FALSE]
       ELSE /\ account' = [balance |-> Plus(account.balance, amount),
                           transactions |-> Append(account.transactions,
                                                   [type |-> "deposit", amount |-> amount])]
            /\ accountCall' = [op |-> "deposit", amount |-> amount, before |-> account,
                               returned |-> TRUE]
    /\ UNCHANGED notAccount

\* BankAccount.withdraw(amount)
BankAccount_withdraw(amount) ==
    /\ Len(account.transactions) < MaxTransactions
    /\ IF LessOrEqual(amount, Finite(0)) \/ Exceeds(amount, account.balance)
       THEN /\ account' = account
            /\ accountCall' = [op |-> "withdraw", amount |-> amount, before |-> account,
                               returned |-> FALSE]
       ELSE /\ account' = [balance |-> Minus(account.balance, amount),
                           transactions |-> Append(account.transactions,
                                                   [type |-> "withdraw", amount |-> amount])]
            /\ accountCall' = [op |-> "withdraw", amount |-> amount, before |-> account,
                               returned |-> TRUE]
    /\ UNCHANGED notAccount

NextAccount ==
    \/ \E amount \in Amounts : BankAccount_deposit(amount)
    \/ \E amount \in Amounts : BankAccount_withdraw(amount)

SpecAccount == InitObjects /\ [][NextAccount]_vars

\* emitter.on(event, handler) and bus.on(event, callback), each handler
\* given to on or once a single time
On(event, h) ==
    /\ h = "logger"
    /\ \/ /\ emitter.registered[h] = "no"
          /\ emitter' = [EventEmitter_on(emitter, event, Callback("on", h))
                             EXCEPT !.registered[h] = "on"]
          /\ UNCHANGED bus
       \/ /\ bus.registered[h] = "no"
          /\ bus' = [EventEmitter_on(bus, event, Callback("on", h))
                         EXCEPT !.registered[h] = "on"]
          /\ UNCHANGED emitter
    /\ UNCHANGED notEvents

\* emitter.once(event, handler) and bus.once(event, callback)
Once(event, h) ==
    /\ h # "logger"
    /\ \/ /\ emitter.registered[h] = "no"
          /\ emitter' = [EventEmitter_once(emitter, event, h)
                             EXCEPT !.registered[h] = "once"]
          /\ UNCHANGED bus
       \/ /\ bus.registered[h] = "no"
          /\ bus' = [EventEmitter_once(bus, event, h) EXCEPT !.registered[h] = "once"]
          /\ UNCHANGED emitter
    /\ UNCHANGED notEvents

\* emitter.emit(event, data) and bus.emit(event, ...args)
Emit(event) ==
    /\ \/ /\ emitter.emits < MaxEmits
          /\ emitter' = [EventEmitter_emit(emitter, event, {}) EXCEPT !.emits = @ + 1]
          /\ UNCHANGED bus
       \/ /\ bus.emits < MaxEmits
          /\ bus' = [EventEmitter_emit(bus, event, {}) EXCEPT !.emits = @ + 1]
          /\ UNCHANGED emitter
    /\ UNCHANGED notEvents

NextEvents ==
    \/ \E event \in Events, h \in Handlers : On(event, h)
    \/ \E event \in Events, h \in Handlers : Once(event, h)
    \/ \E event \in Events : Emit(event)

SpecEvents == InitObjects /\ [][NextEvents]_vars

\* new ExpiringStorage(defaultTtl), CacheManager.getCache(name),
\* new Cache(), new TypedCache()
NewCache(class) ==
    /\ cache = NoCache
    /\ cache' = [class |-> class, defaultTtl |-> DefaultTtlOf(class),
                 store |-> [k \in Keys |-> NoEntry]]
    /\ cacheCall' = [op |-> "new"]
    /\ UNCHANGED <<now, cacheLog>>
    /\ UNCHANGED notCache

\* set(key, value, ttl)
Cache_set(key, value, ttl) ==
    /\ cache # NoCache
    /\ cacheLog.sets < MaxSets
    /\ value = Values[cacheLog.sets + 1]
    /\ LET entry == Entry(value, now + TtlOf(cache, ttl))
       IN /\ cache' = [cache EXCEPT !.store[key] = entry]
          /\ cacheLog' = [cacheLog EXCEPT !.latest[key] = entry, !.sets = @ + 1]
    /\ cacheCall' = [op |-> "set", key |-> key]
    /\ UNCHANGED now
    /\ UNCHANGED notCache

\* get(key)
Cache_get(key) ==
    /\ cache # NoCache
    /\ LET item == cache.store[key]
       IN IF ~item.present
          THEN /\ cacheCall' = [op |-> "get", key |-> key, before |-> cache, time |-> now,
                                found |-> NoEntry, returned |-> "undefined"]
               /\ UNCHANGED <<cache, cacheLog>>
          ELSE IF Expired(now, item.expiry)
          THEN /\ cache' = [cache EXCEPT !.store[key] = NoEntry]
               /\ cacheLog' = [cacheLog EXCEPT !.expired = @ \cup {item.value}]
               /\ cacheCall' = [op |-> "get", key |-> key, before |-> cache, time |-> now,
                                found |-> NoEntry, returned |-> "undefined"]
          ELSE /\ cacheCall' = [op |-> "get", key |-> key, before |-> cache, time |-> now,
                                found |-> item, returned |-> item.value]
               /\ UNCHANGED <<cache, cacheLog>>
    /\ UNCHANGED now
    /\ UNCHANGED notCache

\* remove(key), delete(key)
Cache_delete(key) ==
    /\ cache # NoCache
    /\ cache.class # "CacheManager"
    /\ cache.store[key].present
    /\ cache' = [cache EXCEPT !.store[key] = NoEntry]
    /\ cacheCall' = [op |-> "delete", key |-> key]
    /\ UNCHANGED <<now, cacheLog>>
    /\ UNCHANGED notCache

\* Date.now() is the wall clock: it moves on, and it can be set back
Tick ==
    /\ now < MaxTicks * Step
    /\ now' = now + Step
    /\ cacheCall' = [op |-> "tick"]
    /\ UNCHANGED <<cache, cacheLog>>
    /\ UNCHANGED notCache

SetBack ==
    /\ now > 0
    /\ now' = now - Step
    /\ cacheCall' = [op |-> "back"]
    /\ UNCHANGED <<cache, cacheLog>>
    /\ UNCHANGED notCache

NextCache ==
    \/ \E class \in CacheClasses : NewCache(class)
    \/ \E key \in Keys, i \in 1..Len(Values), ttl \in Ttls : Cache_set(key, Values[i], ttl)
    \/ \E key \in Keys : Cache_get(key)
    \/ \E key \in Keys : Cache_delete(key)
    \/ Tick
    \/ SetBack

SpecCache == InitObjects /\ [][NextCache]_vars

Done == result # Pending
Value(r) == r.tag = "ok"
IsUnionV(v) == v.k = "union"
Failed(r) == r.tag = "err"
\* the same value, or the same error
SameOutcome(a, b) ==
    /\ a.tag = b.tag
    /\ Value(a) => a.val = b.val
    /\ Failed(a) => a.err = b.err /\ a.info = b.info

(* ------------------------------------------------------------------ *)
(* C1  Distribution law: a Conditional whose check is the bare          *)
(* parameter T, with T bound to a union, returns the normalized union  *)
(* of the results of the same Conditional with T bound to each member   *)
(* alone; ToArray<string | number> is string[] | number[] and           *)
(* MyExclude<"a" | "b" | "c", "a"> is "b" | "c".                        *)
(* ------------------------------------------------------------------ *)
PerMember(c) == {evaluate(c.expr, ("T" :> m) @@ c.env) : m \in c.args[1].members}

C1_Distribution ==
    /\ (Done /\ call.kind = "bare" /\ IsUnionV(call.args[1])
            /\ \A r \in PerMember(call) : Value(r))
        => /\ Value(result)
           /\ result.val = Normalize(RawUnion({r.val : r \in PerMember(call)}))
    /\ (Done /\ call.kind = "ToArray" /\ IsUnionV(call.args[1]))
        => /\ Value(result)
           /\ result.val = RawUnion({ArrayV(m) : m \in call.args[1].members})
    /\ (Done /\ call.kind = "MyExclude" /\ IsUnionV(call.args[1]))
        => /\ Value(result)
           /\ result.val = Normalize(RawUnion(
                  {m \in call.args[1].members : ~Assignable(m, call.args[2])}))

C1_Witness ==
    /\ call.kind = "MyExclude"
    /\ call.args = <<RawUnion({Str(<<"a">>), Str(<<"b">>), Str(<<"c">>)}), Str(<<"a">>)>>
    /\ Value(result)
    /\ result.val = RawUnion({Str(<<"b">>), Str(<<"c">>)})

(* ------------------------------------------------------------------ *)
(* C2  A Conditional whose check is the parameter wrapped in a tuple or *)
(* an object is evaluated once, with the whole union as the subject:    *)
(* the result is one branch evaluated with T bound to the whole union,  *)
(* the then-branch exactly when every member matches;                   *)
(* ToArrayNonDist<string | number> is (string | number)[].              *)
(* ------------------------------------------------------------------ *)
WholeMatches(c) ==
    \A m \in c.args[1].members :
        Assignable(m, evaluate(c.expr.pattern, c.env).val.elems[1])

WholeMatchesField(c) ==
    \A m \in c.args[1].members :
        Assignable(m, evaluate(c.expr.pattern, c.env).val.fields[1].type)

C2_NotDistributed ==
    /\ (Done /\ call.kind = "wrapTuple" /\ IsUnionV(call.args[1]))
        => SameOutcome(result,
                       IF WholeMatches(call) THEN evaluate(call.expr.thenBranch, call.env)
                       ELSE evaluate(call.expr.elseBranch, call.env))
    /\ (Done /\ call.kind = "wrapObject" /\ IsUnionV(call.args[1]))
        => SameOutcome(result,
                       IF WholeMatchesField(call)
                       THEN evaluate(call.expr.thenBranch, call.env)
                       ELSE evaluate(call.expr.elseBranch, call.env))
    /\ (Done /\ call.kind = "ToArrayNonDist")
        => Value(result) /\ result.val = ArrayV(call.args[1])
    /\ (Done /\ call.kind = "IsNever")
        => Value(result) /\ result.val = IF call.args[1] = Never THEN TrueT ELSE FalseT

C2_Witness ==
    /\ call.kind = "ToArrayNonDist"
    /\ call.args = <<RawUnion({StringT, NumberT})>>
    /\ Value(result)
    /\ result.val = ArrayV(RawUnion({StringT, NumberT}))
    /\ result.val # RawUnion({ArrayV(StringT), ArrayV(NumberT)})

(* ------------------------------------------------------------------ *)
(* C3  Every value returned by an evaluator step (each sub-evaluation   *)
(* of a call, not only its result) is in normal form: no nested union,  *)
(* no duplicate member, no Never member.                                *)
(* ------------------------------------------------------------------ *)
C3_StepsNormalized == Done => \A v \in result.steps : IsNormal(v)

C3_Witness ==
    /\ call.kind = "MyNonNullable"
    /\ call.args = <<RawUnion({StringT, NullT})>>
    /\ Value(result)
    /\ result.val = StringT
    /\ Never \in result.steps

(* ------------------------------------------------------------------ *)
(* C4  A call whose depth exceeds the configured maximum ends with     *)
(* RecursionLimitError: a definition that applies itself to its         *)
(* unchanged argument always does, and Reverse does exactly when the    *)
(* tuple is too long for the maximum (it needs one call per element     *)
(* and one for the empty tuple).                                        *)
(* ------------------------------------------------------------------ *)
RecursionLimit(r) == Failed(r) /\ r.err = "RecursionLimitError"

C4_RecursionGuard ==
    /\ (Done /\ call.kind = "Loop") => RecursionLimit(result)
    /\ (Done /\ call.kind = "deep")
        => IF Len(call.args[1].elems) + 1 > MaxDepth
           THEN RecursionLimit(result)
           ELSE Value(result) /\ result.val = call.args[1]

C4_Witness ==
    /\ call.kind = "deep"
    /\ Len(call.args[1].elems) = MaxDepth
    /\ RecursionLimit(result)

(* ------------------------------------------------------------------ *)
(* C5  When a sub-evaluation of a call fails, the call returns that    *)
(* same error: never a value built from the other parts, never Never   *)
(* in place of the failed part.                                         *)
(* ------------------------------------------------------------------ *)
SubResult(c) == evaluate(c.sub, c.subenv)

C5_ErrorPropagates ==
    (Done /\ call.kind \in WrapKinds /\ Failed(SubResult(call)))
        => SameOutcome(result, SubResult(call))

C5_Witness ==
    /\ call.kind = "distributed"
    /\ call.sub = Ref("Missing")
    /\ Failed(result)
    /\ result.err = "UnboundReferenceError"
    /\ result.info = "Missing"

(* ------------------------------------------------------------------ *)
(* C6  (as stated) matching a string literal against                    *)
(* `${infer F}${infer R}` surfaces as MatchAmbiguousError.              *)
(* ------------------------------------------------------------------ *)
C6_Original ==
    (Done /\ call.kind \in {"MyCapitalize", "StringToUnion"} /\ call.args[1].v # <<>>)
        => Failed(result) /\ result.err = "MatchAmbiguousError"

(* ------------------------------------------------------------------ *)
(* C6  (amended) matching a string literal against                      *)
(* `${infer F}${infer R}` is never an error: on a non-empty string F    *)
(* captures the first character and R the remainder, so MyCapitalize    *)
(* upper-cases the first character and StringToUnion is the union of    *)
(* the characters; the empty string does not match and the else-branch  *)
(* is taken.                                                            *)
(* ------------------------------------------------------------------ *)
C6_FirstCharacterSplit ==
    /\ (Done /\ call.kind = "MyCapitalize")
        => /\ Value(result)
           /\ result.val = IF call.args[1].v = <<>> THEN call.args[1]
                           ELSE Str(<<UpperChar(Head(call.args[1].v))>>
                                    \o Tail(call.args[1].v))
    /\ (Done /\ call.kind = "StringToUnion")
        => /\ Value(result)
           /\ result.val = Normalize(RawUnion(
                  {Str(<<call.args[1].v[i]>>) : i \in 1..Len(call.args[1].v)}))

C6_Witness ==
    /\ call.kind = "MyCapitalize"
    /\ call.args = <<Str(<<"h", "a", "b">>)>>
    /\ Value(result)
    /\ result.val = Str(<<"H", "a", "b">>)

(* ------------------------------------------------------------------ *)
(* C7  A failed pattern match is not an error: the call returns the     *)
(* value of the else-branch, also when a tuple pattern's arity does not *)
(* fit the subject (First<[]> is never, Reverse<[]> is []).             *)
(* ------------------------------------------------------------------ *)
C7_FailureTakesElse ==
    /\ (Done /\ call.kind = "First")
        => /\ Value(result)
           /\ result.val = IF call.args[1].elems = <<>> THEN Never
                           ELSE Head(call.args[1].elems)
    /\ (Done /\ call.kind = "Reverse" /\ call.args[1].elems = <<>>)
        => Value(result) /\ result.val = TupleV(<<>>)
    /\ (Done /\ call.kind = "bare" /\ call.args[1].k \notin {"union", "never"}
            /\ Match(call.args[1], call.expr.pattern, call.env, 0).m = "no")
        => SameOutcome(result, evaluate(call.expr.elseBranch, call.env))

C7_Witness ==
    /\ call.kind = "First"
    /\ call.args = <<TupleV(<<>>)>>
    /\ Value(result)
    /\ result.val = Never

(* ------------------------------------------------------------------ *)
(* C8  (as stated) a tuple or function-type subject whose element count *)
(* does not fit the pattern, with no rest element to absorb the         *)
(* difference, produces ArityMismatchError.                             *)
(* ------------------------------------------------------------------ *)
\* the subject of the call has too few or too many elements for the pattern
ArityIncompatible(c) ==
    \/ c.kind \in {"First", "Last"} /\ c.args[1].elems = <<>>
    \/ c.kind = "Zip" /\ Len(c.args[1].elems) > Len(c.args[2].elems)
    \/ c.kind = "scope" /\ c.args[1].k = "tuple" /\ Len(c.args[1].elems) # 2
    \/ c.kind = "fnPattern" /\ Len(c.args[1].params.elems) # 1

C8_Original ==
    (Done /\ ArityIncompatible(call))
        => Failed(result) /\ result.err = "ArityMismatchError"

(* ------------------------------------------------------------------ *)
(* C8  (amended) a tuple or function-type subject whose element count   *)
(* does not fit the pattern is a failed match: the else-branch is       *)
(* evaluated and no ArityMismatchError is produced.                     *)
(* ------------------------------------------------------------------ *)
C8_MismatchIsMatchFailure ==
    (Done /\ ArityIncompatible(call))
        => CASE call.kind \in {"First", "Last", "fnPattern"} ->
                    Value(result) /\ result.val = Never
             [] call.kind = "Zip" ->
                    /\ Value(result)
                    /\ result.val.k = "tuple"
                    /\ Len(result.val.elems) = Len(call.args[2].elems)
             [] OTHER -> SameOutcome(result, evaluate(Ref("F"), call.env))

C8_Witness ==
    /\ call.kind = "Zip"
    /\ call.args = <<TupleV(<<Num("1"), Str(<<"a">>)>>), TupleV(<<Num("1")>>)>>
    /\ Value(result)
    /\ result.val = TupleV(<<TupleV(<<Num("1"), Num("1")>>)>>)

(* ------------------------------------------------------------------ *)
(* C9  (as stated) Apply with a number of arguments other than the      *)
(* number of parameter names returns ArityMismatchError, as when        *)
(* Permutation<T, K> or IsUnion<T, C> is applied to one argument.       *)
(* ------------------------------------------------------------------ *)
Params(c) == definitions[c.expr.name].params

C9_Original ==
    (Done /\ call.kind = "arity" /\ Len(call.args) # Len(Params(call)))
        => Failed(result) /\ result.err = "ArityMismatchError"

(* ------------------------------------------------------------------ *)
(* C9  (amended) Apply returns ArityMismatchError when it has more      *)
(* arguments than the definition has parameters, or fewer than it has   *)
(* parameters without a default; a missing argument whose parameter     *)
(* has a default is bound to that default, so Permutation<T, K = T>     *)
(* and IsUnion<T, C = T> applied to one argument T evaluate as when     *)
(* applied to T and T.                                                  *)
(* ------------------------------------------------------------------ *)
ArityError(r) == Failed(r) /\ r.err = "ArityMismatchError"

C9_ArityCountsDefaults ==
    (Done /\ call.kind = "arity")
        => CASE Len(call.args) > Len(Params(call)) -> ArityError(result)
             [] call.expr.name \in {"MyExclude", "First"}
                    /\ Len(call.args) < Len(Params(call)) -> ArityError(result)
             [] call.expr.name \in {"Permutation", "IsUnion"} /\ Len(call.args) = 0 ->
                    ArityError(result)
             [] call.expr.name \in {"Permutation", "IsUnion"} /\ Len(call.args) = 1 ->
                    /\ Value(result)
                    /\ SameOutcome(result,
                           evaluate(Apply(call.expr.name,
                                          Lits(<<call.args[1], call.args[1]>>)), EmptyEnv))
             [] OTHER -> ~ArityError(result)

C9_Witness ==
    /\ call.kind = "arity"
    /\ call.expr.name = "IsUnion"
    /\ call.args = <<RawUnion({Str(<<"a">>), Str(<<"b">>)})>>
    /\ Value(result)
    /\ result.val = TrueT

(* ------------------------------------------------------------------ *)
(* C10  Names captured by Infer are bound only in the then-branch: on   *)
(* a successful match the then-branch sees the captures; on a failed    *)
(* match the else-branch is evaluated in the original environment, so   *)
(* a Ref to the name there sees the outer binding or is unbound, never  *)
(* a captured value.                                                    *)
(* ------------------------------------------------------------------ *)
ScopeMatches(t) ==
    t.k = "tuple" /\ Len(t.elems) = 2 /\ Assignable(t.elems[2], StringT)

C10_InferScope ==
    /\ (Done /\ call.kind = "scope")
        => IF ScopeMatches(call.args[1])
           THEN Value(result) /\ result.val = call.args[1].elems[1]
           ELSE IF "F" \in DOMAIN call.env
           THEN Value(result) /\ result.val = call.env["F"]
           ELSE /\ Failed(result)
                /\ result.err = "UnboundReferenceError"
                /\ result.info = "F"
    /\ (Done /\ call.kind = "MyReturnType")
        => /\ Value(result)
           /\ result.val = IF call.args[1].k = "fn" THEN call.args[1].ret ELSE Never

C10_Witness ==
    /\ call.kind = "scope"
    /\ call.args = <<TupleV(<<Str(<<"a">>), Num("1")>>)>>
    /\ "F" \in DOMAIN call.env
    /\ Value(result)
    /\ result.val = NullT

(* ------------------------------------------------------------------ *)
(* C11  IndexedAccess with a union of keys returns the normalized union *)
(* of the types looked up for each member key: a record indexed by a    *)
(* union of its keys gives the union of the types read from those       *)
(* fields ({a: number, b: string}["a" | "b"] is number | string),       *)
(* T[number] on a tuple is the union of its element types, and          *)
(* ObjectEntries<T> is the union of the types read from the fields of   *)
(* the mapped record, each a [key, type] pair.                          *)
(* ------------------------------------------------------------------ *)
\* the type read from a field: an optional field may be undefined
ReadType(f) == IF f.optional THEN Normalize(RawUnion({f.type, UndefinedT})) ELSE f.type

C11_IndexDistributes ==
    /\ (Done /\ call.kind = "index"
            /\ \A key \in KeysIn(call.args[2]) : key.v \in FieldNames(call.args[1]))
        => /\ Value(result)
           /\ result.val = Normalize(RawUnion(
                  {ReadType(FieldOf(call.args[1], key.v)) : key \in KeysIn(call.args[2])}))
    /\ (Done /\ call.kind = "TupleToUnion")
        => /\ Value(result)
           /\ result.val = Normalize(RawUnion(
                  {call.args[1].elems[i] : i \in 1..Len(call.args[1].elems)}))
    /\ (Done /\ call.kind = "ObjectEntries")
        => /\ Value(result)
           /\ result.val = Normalize(RawUnion(
                  {ReadType([call.args[1].fields[i] EXCEPT
                                !.type = TupleV(<<Str(call.args[1].fields[i].name),
                                                  ReadType(call.args[1].fields[i])>>)]) :
                      i \in 1..Len(call.args[1].fields)}))

C11_Witness ==
    /\ call.kind = "index"
    /\ call.args = <<RecordV(<<Field(<<"a">>, NumberT, FALSE, FALSE),
                               Field(<<"b">>, StringT, FALSE, FALSE)>>),
                     RawUnion({Str(<<"a">>), Str(<<"b">>)})>>
    /\ Value(result)
    /\ result.val = RawUnion({NumberT, StringT})

(* ------------------------------------------------------------------ *)
(* C12  Reverse involution: for every tuple T, the empty tuple          *)
(* included, Reverse<Reverse<T>> is normalize(T); Reverse<T> itself is  *)
(* the tuple of the elements of T in the opposite order.                *)
(* ------------------------------------------------------------------ *)
Reversed(es) == [i \in 1..Len(es) |-> es[Len(es) + 1 - i]]

FieldSet(v) == {v.fields[i] : i \in 1..Len(v.fields)}
Dual(pick, omit, r) ==
    /\ pick.k = "record" /\ omit.k = "record"
    /\ FieldNames(pick) \cap FieldNames(omit) = {}
    /\ FieldSet(pick) \cup FieldSet(omit) = FieldSet(Normalize(r))

C13_PickOmitDuality ==
    (Done /\ call.kind \in {"MyOmit", "MyOmitExclude"})
        => /\ Value(result)
           /\ Dual(result.val.elems[1], result.val.elems[2], call.args[1])

\* the MyOmit written with Exclude drops the readonly modifier
C13_Witness ==
    /\ call.kind = "MyOmitExclude"
    /\ call.args = <<RecordV(<<Field(<<"a">>, NumberT, FALSE, FALSE),
                               Field(<<"b">>, StringT, FALSE, TRUE)>>), Str(<<"a">>)>>
    /\ Value(result)
    /\ result.val.elems[1] = RecordV(<<Field(<<"a">>, NumberT, FALSE, FALSE)>>)
    /\ result.val.elems[2] = RecordV(<<Field(<<"b">>, StringT, FALSE, FALSE)>>)

(* ------------------------------------------------------------------ *)
(* C14  Idempotent Readonly: for every record R,                        *)
(* Readonly<Readonly<R>> is Readonly<R>, which is R with every field    *)
(* readonly and nothing else changed.                                   *)
(* ------------------------------------------------------------------ *)
AllReadonly(r) == RecordV([i \in 1..Len(r.fields) |-> [r.fields[i] EXCEPT !.readonly = TRUE]])

C14_ReadonlyIdempotent ==
    (Done /\ call.kind = "readonlyTwice")
        => /\ Value(result)
           /\ SameOutcome(result, SubResult(call))
           /\ result.val = AllReadonly(Normalize(call.args[1]))

C14_Witness ==
    /\ call.kind = "readonlyTwice"
    /\ call.args = <<RecordV(<<Field(<<"a">>, NumberT, FALSE, FALSE),
                               Field(<<"b">>, StringT, TRUE, FALSE)>>)>>
    /\ Value(result)
    /\ result.val = RecordV(<<Field(<<"a">>, NumberT, FALSE, TRUE),
                              Field(<<"b">>, StringT, TRUE, TRUE)>>)

(* ------------------------------------------------------------------ *)
(* C15  Normalization idempotence: for every TypeValue v, with unions   *)
(* nested in unions, tuples, arrays, records and function types and     *)
(* with intersections of conflicting members, normalize(v) is in normal *)
(* form and normalize(normalize(v)) is normalize(v).                    *)
(* ------------------------------------------------------------------ *)
C15_NormalizeIdempotent ==
    (Done /\ call.kind = "normalize")
        => /\ Value(result)
           /\ IsNormal(result.val)
           /\ Normalize(result.val) = result.val

C15_Witness ==
    /\ call.kind = "normalize"
    /\ call.args = <<RawUnion({RawUnion({RawUnion({StringT, Never}), Str(<<"a">>)}),
                              NumberT})>>
    /\ Value(result)
    /\ result.val = RawUnion({StringT, Str(<<"a">>), NumberT})

(* ------------------------------------------------------------------ *)
(* C16  Union absorption: normalize(Union({Never, X})) is normalize(X)  *)
(* for every X other than Never (X itself when normalize leaves X as   *)
(* it is),                                                              *)
(* and normalize of the empty union is Never;                          *)
(* MyNonNullable<T> is T without null and undefined.                    *)
(* ------------------------------------------------------------------ *)
C16_UnionAbsorption ==
    /\ (Done /\ call.kind = "absorb")
        => /\ Value(result)
           /\ SameOutcome(result, SubResult(call))
           /\ result.val = Normalize(call.args[1])
           /\ Normalize(call.args[1]) = call.args[1] => result.val = call.args[1]
    /\ (Done /\ call.kind = "emptyUnion")
        => Value(result) /\ result.val = Never
    /\ (Done /\ call.kind = "MyNonNullable")
        => /\ Value(result)
           /\ KeysIn(result.val) = KeysIn(call.args[1]) \ {NullT, UndefinedT}

C16_Witness ==
    /\ call.kind = "absorb"
    /\ call.args = <<RawUnion({StringT, Num("1")})>>
    /\ call.expr = LitE(RawUnion({Never, RawUnion({StringT, Num("1")})}))
    /\ Value(result)
    /\ result.val = RawUnion({StringT, Num("1")})

(* ------------------------------------------------------------------ *)
(* C17  (as stated) two calls with the same expression, environment     *)
(* and definition table return the same TypeValue or the same error,    *)
(* whatever the order in which union members are visited.               *)
(* ------------------------------------------------------------------ *)
RECURSIVE StructurallyEqual(_, _)
StructurallyEqual(a, b) ==
    IF a.k # b.k THEN FALSE
    ELSE CASE a.k = "record" ->
                /\ FieldNames(a) = FieldNames(b)
                /\ \A n \in FieldNames(a) :
                      /\ FieldOf(a, n).optional = FieldOf(b, n).optional
                      /\ FieldOf(a, n).readonly = FieldOf(b, n).readonly
                      /\ StructurallyEqual(FieldOf(a, n).type, FieldOf(b, n).type)
           [] a.k = "tuple" ->
                /\ Len(a.elems) = Len(b.elems)
                /\ \A i \in 1..Len(a.elems) : StructurallyEqual(a.elems[i], b.elems[i])
           [] a.k = "union" ->
                /\ \A m \in a.members : \E n \in b.members : StructurallyEqual(m, n)
                /\ \A n \in b.members : \E m \in a.members : StructurallyEqual(m, n)
           [] OTHER -> a = b
Twice == result # Pending /\ again # Pending /\ order = "other"
SameError(a, b) == a.err = b.err /\ a.info = b.info

Recursive(c) == c.kind \in {"Reverse", "deep", "Zip", "Permutation"}

\* the size of the input: the tuple length (the shorter one for Zip), or
\* the number of union members
Size(c) ==
    CASE c.kind \in {"Reverse", "deep"} -> Len(c.args[1].elems)
      [] c.kind = "Zip" ->
            IF Len(c.args[1].elems) <= Len(c.args[2].elems)
            THEN Len(c.args[1].elems) ELSE Len(c.args[2].elems)
      [] OTHER -> IF c.args[1].k = "union" THEN Cardinality(c.args[1].members)
                  ELSE IF c.args[1] = Never THEN 0 ELSE 1

\* the call ends with a TypeValue when only n nested calls are left
FitsIn(c, n) == n <= MaxDepth /\ Value(Eval(c.expr, c.env, MaxDepth - n))

\* as stated: whatever the size of the input, the guard does not fire
C19_Original ==
    (Done /\ Recursive(call)) => Value(result)

\* C19 (amended)  An input of size n needs at most n + 1 nested calls:
\* the call ends with a TypeValue when n + 1 is within the recursion
\* limit, and Reverse on a longer tuple ends with RecursionLimitError.
C19_TerminatesWithinLimit ==
    (Done /\ Recursive(call)) =>
        IF Size(call) + 1 <= MaxDepth
        THEN Value(result) /\ FitsIn(call, Size(call) + 1)
        ELSE Failed(result) /\ result.err = "RecursionLimitError"

C19_Witness ==
    /\ Done
    /\ call.kind = "Permutation"
    /\ Size(call) = 3
    /\ Value(result)
    /\ result.val.k = "union"
    /\ Cardinality(result.val.members) = 6
    /\ ~FitsIn(call, Size(call))

(* ------------------------------------------------------------------ *)
(* C20  TaskQueue.dequeue() returns a task whose priority is the        *)
(* maximum among the tasks in the queue, and undefined only when the    *)
(* queue is empty.                                                      *)
(* ------------------------------------------------------------------ *)
\* no task of q has a priority above p
Highest(p, q) ==
    \A j \in 1..Len(q) : ~(~p.nan /\ ~q[j].priority.nan /\ p.n < q[j].priority.n)

\* C20  For every dequeue(): the value returned is the task of an entry
\* whose priority no entry of the queue exceeds, and it is undefined only
\* when the queue was empty.
C20_Original ==
    dequeued.called =>
        /\ (dequeued.value = Undefined) => (dequeued.before = <<>>)
        /\ (dequeued.before # <<>>) =>
                \E i \in 1..Len(dequeued.before) :
                    /\ dequeued.before[i].task = dequeued.value
                    /\ Highest(dequeued.before[i].priority, dequeued.before)

\* what dequeue() does guarantee: it returns the task at the head of the
\* queue, or undefined when the queue is empty; when no NaN priority was
\* enqueued since the queue was created or cleared, the head has the
\* maximum priority
DequeueReturnsHead ==
    dequeued.called =>
        /\ (dequeued.before = <<>>) => (dequeued.value = Undefined)
        /\ (dequeued.before # <<>>) =>
                /\ dequeued.value = Head(dequeued.before).task
                /\ queue = Tail(dequeued.before)
                /\ ~enqueuedNaN =>
                        \A j \in 1..Len(dequeued.before) :
                            Head(dequeued.before).priority.n
                                >= dequeued.before[j].priority.n

\* the source's calls: enqueue("low", 1), enqueue("high", 10),
\* enqueue("mid", 5), dequeue() returns "high"
C20_Witness ==
    /\ dequeued.called
    /\ dequeued.before = <<[task |-> Task("high"), priority |-> Finite(10)],
                           [task |-> Task("mid"), priority |-> Finite(5)],
                           [task |-> Task("low"), priority |-> Finite(1)]>>
    /\ dequeued.value = Task("high")
    /\ size = 2 /\ ~isEmpty /\ peek = Task("mid")
    /\ ~enqueuedNaN

(* ------------------------------------------------------------------ *)
(* C21  CommandManager.execute empties the redo stack: from an execute  *)
(* until the next undo the redo stack is empty and a redo() changes     *)
(* nothing, so no command undone before that execute is applied again.  *)
(* ------------------------------------------------------------------ *)
C21_ExecuteClearsRedo ==
    /\ commandCall.fresh => commandManager.redoStack = <<>>
    /\ (commandCall.op = "redo" /\ commandCall.fresh) => CommandState = commandCall.before

\* execute, execute, undo, execute, redo: the redo finds nothing to apply
C21_Witness ==
    /\ commandCall.op = "redo"
    /\ commandCall.fresh
    /\ commandManager.history = <<"hello", "hello">>
    /\ commands["world"].previousContent = <<"Hello ">>
    /\ editor.content = <<"Hello ", "Hello ">>

(* ------------------------------------------------------------------ *)
(* C24  Whatever the execute, undo and redo calls were, once undo() has *)
(* emptied the history the editor content is the empty string again.    *)
(* ------------------------------------------------------------------ *)
C24_UndoAllRestores ==
    commandManager.history = <<>> => editor.content = <<>>

\* one command object executed twice, then undone twice
C24_Witness ==
    /\ commandCall.op = "undo"
    /\ commandManager.history = <<>>
    /\ commandManager.redoStack = <<"hello", "hello">>
    /\ editor.content = <<"Hello ">>

(* ------------------------------------------------------------------ *)
(* C22  Permutation of a union of n distinct literal members is the     *)
(* union of the n! tuples of length n that hold every member once.      *)
(* ------------------------------------------------------------------ *)
\* the members of a union, a single type being its own only member
MemberSet(v) == IF v.k = "union" THEN v.members ELSE IF v = Never THEN {} ELSE {v}

\* the tuples that hold every element of S exactly once
Arrangements(S) ==
    {TupleV(es) : es \in {f \in [1..Cardinality(S) -> S] :
                            \A i, j \in 1..Cardinality(S) : f[i] = f[j] => i = j}}

RECURSIVE Factorial(_)
Factorial(n) == IF n = 0 THEN 1 ELSE n * Factorial(n - 1)

C22_PermutationAll ==
    (Done /\ call.kind = "Permutation"
          /\ \A x \in MemberSet(call.args[1]) : x.k = "lit") =>
        /\ Value(result)
        /\ MemberSet(result.val) = Arrangements(MemberSet(call.args[1]))
        /\ Cardinality(MemberSet(result.val))
                = Factorial(Cardinality(MemberSet(call.args[1])))
        /\ \A t \in MemberSet(result.val) :
                /\ t.k = "tuple"
                /\ Len(t.elems) = Cardinality(MemberSet(call.args[1]))
                /\ \A x \in MemberSet(call.args[1]) :
                        Cardinality({i \in 1..Len(t.elems) : t.elems[i] = x}) = 1

C22_Witness ==
    /\ Done
    /\ call.kind = "Permutation"
    /\ call.args[1] = MkUnion({Str(<<"a">>), Str(<<"b">>), Num("1")})
    /\ Value(result)
    /\ TupleV(<<Str(<<"b">>), Num("1"), Str(<<"a">>)>>) \in MemberSet(result.val)
    /\ Cardinality(MemberSet(result.val)) = 6

(* ------------------------------------------------------------------ *)
(* C23  StateMachine.transition(action) changes currentState only when  *)
(* the table has an entry from currentState with that action: it then   *)
(* moves to the entry's target, calls every registered listener once    *)
(* with the new state and returns true; otherwise it returns false,     *)
(* leaves currentState alone and calls no listener.                     *)
(* ------------------------------------------------------------------ *)
C23_TransitionByTable ==
    machineCall.op = "transition" =>
        LET entries == {i \in 1..Len(transitions) :
                          /\ transitions[i].from = machineCall.before
                          /\ transitions[i].action = machineCall.action}
        IN IF entries # {}
           THEN /\ machineCall.returned
                /\ \E i \in entries : machine.currentState = transitions[i].to
                /\ Len(machineCall.calls) = Len(machine.listeners)
                /\ \A j \in 1..Len(machine.listeners) :
                        machineCall.calls[j] = [listener |-> machine.listeners[j],
                                                state |-> machine.currentState]
           ELSE /\ ~machineCall.returned
                /\ machine.currentState = machineCall.before
                /\ machineCall.calls = <<>>

\* fetch, then reject with two listeners registered
C23_Witness ==
    /\ machineCall.op = "transition"
    /\ machineCall.before = "loading"
    /\ machineCall.action = "reject"
    /\ machineCall.returned
    /\ getState = "error"
    /\ canTransition("retry")
    /\ machineCall.calls = <<[listener |-> "log", state |-> "error"],
                             [listener |-> "count", state |-> "error"]>>

(* ------------------------------------------------------------------ *)
(* C25  No object is in the available list and in the inUse set at the  *)
(* same time, none is in the available list twice, and release(obj) of  *)
(* an object that is not in use changes nothing.                        *)
(* ------------------------------------------------------------------ *)
C25_PoolDisjoint ==
    /\ \A i \in 1..Len(particlePool.available) :
            particlePool.available[i] \notin particlePool.inUse
    /\ \A i, j \in 1..Len(particlePool.available) :
            particlePool.available[i] = particlePool.available[j] => i = j
    /\ (poolCall.op = "release" /\ poolCall.obj \notin poolCall.before.pool.inUse)
            => PoolState = poolCall.before

\* an object released a second time while another one is in use
C25_Witness ==
    /\ poolCall.op = "release"
    /\ poolCall.obj = 2
    /\ \E i \in 1..Len(poolCall.before.pool.available) :
            poolCall.before.pool.available[i] = 2
    /\ particlePool.inUse = {1}
    /\ getStats = [available |-> 1, inUse |-> 1]

(* ------------------------------------------------------------------ *)
(* C26  The balance is never negative and equals the recorded deposits  *)
(* minus the recorded withdrawals; a call that returns false (amount    *)
(* <= 0, or a withdrawal above the balance) changes neither the balance *)
(* nor the transaction list.                                            *)
(* ------------------------------------------------------------------ *)
RECURSIVE Recorded(_, _)
Recorded(ts, type) ==
    IF ts = <<>> THEN Finite(0)
    ELSE LET rest == Recorded(SubSeq(ts, 1, Len(ts) - 1), type)
         IN IF ts[Len(ts)].type = type THEN Plus(rest, ts[Len(ts)].amount) ELSE rest

C26_BalanceIsSum ==
    /\ ~(~account.balance.nan /\ account.balance.n < 0)
    /\ account.balance = Minus(Recorded(account.transactions, "deposit"),
                               Recorded(account.transactions, "withdraw"))
    /\ (accountCall.op # "none" /\ ~accountCall.returned) =>
            /\ account = accountCall.before
            /\ \/ LessOrEqual(accountCall.amount, Finite(0))
               \/ /\ accountCall.op = "withdraw"
                  /\ Greater(accountCall.amount, accountCall.before.balance)
    /\ (accountCall.op # "none" /\ accountCall.returned) =>
            account.transactions =
                Append(accountCall.before.transactions,
                       [type |-> accountCall.op, amount |-> accountCall.amount])

\* deposit(500), then withdraw(5000) is refused
C26_Witness ==
    /\ accountCall.op = "withdraw"
    /\ accountCall.amount = Finite(5000)
    /\ ~accountCall.returned
    /\ getBalance = Finite(1500)
    /\ Len(getTransactionHistory) = 2

(* ------------------------------------------------------------------ *)
(* C27  A handler registered with once(event, handler) is invoked at    *)
(* most once over any sequence of emit calls, also when the handler     *)
(* itself emits the same event while it runs.                           *)
(* ------------------------------------------------------------------ *)
C27_OnceAtMostOnce ==
    \A e \in {emitter, bus} : \A h \in Handlers :
        e.registered[h] = "once" => e.calls[h] <= 1

\* the handler that emits again has run twice after a single emit
C27_Witness ==
    /\ emitter.registered["again"] = "once"
    /\ emitter.emits = 1
    /\ emitter.calls["again"] = 2
    /\ emitter.handlers = NoHandlers.handlers

(* ------------------------------------------------------------------ *)
(* C28  get(key) returns the value set last for key while the time is   *)
(* not later than the entry's expiry (time of set plus TTL); once it is *)
(* later, get(key) returns undefined and removes the entry, and no      *)
(* later get returns a value that a get found expired.                  *)
(* ------------------------------------------------------------------ *)
C28_GetUntilExpiry ==
    cacheCall.op = "get" =>
        LET item == cacheCall.before.store[cacheCall.key]
        IN /\ item.present => item = cacheLog.latest[cacheCall.key]
           /\ IF item.present /\ ~(cacheCall.time > item.expiry)
              THEN /\ cacheCall.returned = item.value
                   /\ cacheCall.found = item
                   /\ cache = cacheCall.before
              ELSE /\ cacheCall.returned = "undefined"
                   /\ ~cache.store[cacheCall.key].present
           /\ cacheCall.found.present => cacheCall.found.value \notin cacheLog.expired

\* a value set with one step to live, read at its expiry, found expired
\* one step later, and not returned after the clock was set back
C28_Witness ==
    /\ cacheCall.op = "get"
    /\ cache.class = "TypedCache"
    /\ cacheCall.key = "u1"
    /\ cacheLog.latest["u1"] = Entry("a", Step)
    /\ "a" \in cacheLog.expired
    /\ cacheCall.time = 0
    /\ cacheCall.returned = "undefined"
====
